---- MODULE Spec2Model ----
(***************************************************************************)
(* GitStarHub synchronisation engine: the upstream API client              *)
(* (src/lib/github.ts), the orchestrator syncUserRepositories with its     *)
(* retry wrapper (src/lib/github.ts, sync section), the persistence        *)
(* gateway (src/lib/db.ts over the schema of src/unnamed/part_002) and the *)
(* manual trigger (src/unnamed/part_004).                                  *)
(*                                                                         *)
(* Three specifications share the module:                                  *)
(*   SpecRetry  withRetry around one call, GitHubClient.request inside it  *)
(*   SpecPages  GitHubClient.getAllStarredRepos against a paged upstream   *)
(*   Spec       sync runs, the database, the clock and the HTTP triggers   *)
(***************************************************************************)
EXTENDS Integers, Sequences, FiniteSets, TLC

(***************************************************************************)
(* Program constants                                                       *)
(***************************************************************************)
maxRetries == 3
MAX_RETRIES == 3
RETRY_DELAY_MS == 1000
ONE_HOUR_MS == 3600000
RATE_LIMIT_BUFFER_MS == 1000
PER_PAGE == 100
DEFAULT_MAX_PAGES == 100
PAGE_DELAY_MS == 100
REPO_DELAY_MS == 100
MIN_SYNC_INTERVAL_MS == 300000
UPDATE_CAP == 20
ACTIVITY_COUNT == 5
DEFAULT_SYNC_INTERVAL == 120
MIN_INTERVAL_MINUTES == 30
MAX_INTERVAL_MINUTES == 1440
SAVING_PROGRESS_EVERY == 10
UPDATES_PROGRESS_EVERY == 5

(***************************************************************************)
(* Bounds of the model                                                     *)
(***************************************************************************)
\* the upstream serves at most this many full pages before a short one
MaxFullPages == 2
\* trigger requests and calls of syncUserRepositories in one behaviour
MaxRuns == 2
\* starred repositories of a user
MaxRepos == 2
\* failures the environment injects in one behaviour of SpecFault
MaxFaults == 3
\* requests to the scheduled trigger in one behaviour
MaxSweeps == 2
\* advances of the clock in one behaviour
MaxTicks == 1
\* settings writes in one behaviour
MaxPuts == 1

Min(a, b) == IF a < b THEN a ELSE b

RECURSIVE Pow2(_)
Pow2(n) == IF n = 0 THEN 1 ELSE 2 * Pow2(n - 1)

(***************************************************************************)
(* Errors.  `at' is the identity of the thrown object: the attempt of the  *)
(* loop that created it.  Messages are the strings the code builds; the    *)
(* two substring tests of withRetry are tabulated over them.               *)
(***************************************************************************)
NoRL == [present |-> FALSE, remaining |-> 0, wait |-> 0]
NoError == [cls |-> "none", status |-> 0, msg |-> "", rl |-> NoRL, at |-> 0]

GitHubApiError(message, status, rateLimit, at) ==
  [cls |-> "GitHubApiError", status |-> status, msg |-> message,
   rl |-> rateLimit, at |-> at]

NetworkError(at) ==
  [cls |-> "TypeError", status |-> 0, msg |-> "fetch failed", rl |-> NoRL, at |-> at]

JsonSyntaxError(at) ==
  [cls |-> "SyntaxError", status |-> 0, msg |-> "Unexpected token", rl |-> NoRL, at |-> at]

RequestFailedError(at) ==
  [cls |-> "Error", status |-> 0, msg |-> "Request failed after retries",
   rl |-> NoRL, at |-> at]

DatabaseError(message, at) ==
  [cls |-> "DatabaseError", status |-> 0, msg |-> message, rl |-> NoRL, at |-> at]

DefaultErrorMessage(status) ==
  CASE status = 401 -> "GitHub API error: 401"
    [] status = 403 -> "GitHub API error: 403"
    [] status = 404 -> "GitHub API error: 404"
    [] OTHER        -> "GitHub API error: 500"

\* errorJson.message || errorMessage ; "nojson" is a body JSON.parse rejects
ErrorMessage(status, body) ==
  IF body = "nojson" \/ body = "" THEN DefaultErrorMessage(status) ELSE body

RateLimitMessage == "GitHub API rate limit exceeded. Resets at <time>"

\* error.message.includes('401')
Includes401(m) == m \in {"GitHub API error: 401"}
\* error.message.includes('Unauthorized')
IncludesUnauthorized(m) == m \in {"Unauthorized"}

(***************************************************************************)
(* What one fetch() can produce                                            *)
(***************************************************************************)
ErrStatuses == {401, 403, 404, 500}
ErrBodies == {"nojson", "", "Bad credentials", "Unauthorized", "Not Found"}
WaitChoices == {0, 60000, 3600000}
RateLimits == {NoRL} \cup [present : {TRUE}, remaining : {0, 1}, wait : WaitChoices]

FetchOutcomes ==
  {[kind |-> "neterr", status |-> 0, rl |-> NoRL, body |-> ""]}
  \cup [kind : {"response"}, status : {200}, rl : {NoRL, [present |-> TRUE, remaining |-> 1, wait |-> 60000]},
        body : {"json", "badjson"}]
  \cup [kind : {"response"}, status : ErrStatuses, rl : RateLimits, body : ErrBodies]

ResponseOk(status) == status >= 200 /\ status <= 299

(***************************************************************************)
(* GitHubClient.request: the body of one iteration of its for loop, up to  *)
(* the point where control leaves the try block.                           *)
(***************************************************************************)
RequestTry(attempt, out) ==
  IF out.kind = "neterr"
  THEN [act |-> "caught", err |-> NetworkError(attempt), delay |-> 0]
  ELSE IF out.status = 403 /\ out.rl.present /\ out.rl.remaining = 0
  THEN IF out.rl.wait > 0 /\ out.rl.wait < ONE_HOUR_MS
       THEN [act |-> "continue", err |-> NoError,
             delay |-> out.rl.wait + RATE_LIMIT_BUFFER_MS]
       ELSE [act |-> "caught",
             err |-> GitHubApiError(RateLimitMessage, 403, out.rl, attempt),
             delay |-> 0]
  ELSE IF ~ResponseOk(out.status)
  THEN [act |-> "caught",
        err |-> GitHubApiError(ErrorMessage(out.status, out.body), out.status,
                               out.rl, attempt),
        delay |-> 0]
  ELSE IF out.body = "badjson"
  THEN [act |-> "caught", err |-> JsonSyntaxError(attempt), delay |-> 0]
  ELSE [act |-> "return", err |-> NoError, delay |-> 0]

\* Math.pow(2, attempt) * 1000
RequestBackoff(attempt) == Pow2(attempt) * 1000

\* the catch block of request: rethrow, or sleep when an attempt is left
RequestCatchSleeps(attempt, err) ==
  err.cls # "GitHubApiError" /\ attempt < maxRetries - 1

(***************************************************************************)
(* withRetry: the catch block                                              *)
(***************************************************************************)
\* delayMs * Math.pow(2, attempt)
RetryDelay(attempt) == RETRY_DELAY_MS * Pow2(attempt)

IsAuthError(err) == Includes401(err.msg) \/ IncludesUnauthorized(err.msg)

\* `if (attempt < maxRetries - 1)' guarding the sleep (line 619)
RetrySleepsAlways(attempt) == attempt < MAX_RETRIES
RetrySleeps(attempt) == attempt < MAX_RETRIES - 1

\* what withRetry does with an error caught on `attempt': rethrow an
\* authentication error at once; otherwise sleep when the guard allows it,
\* then go round the loop, and throw lastError when the loop is exhausted
\* the catch block rethrowing whatever it caught
WithRetryCatchGivesUp(attempt, err) == [act |-> "throw", delay |-> 0]

WithRetryCatch(attempt, err) ==
  IF IsAuthError(err) THEN [act |-> "throw", delay |-> 0]
  ELSE [act |-> IF attempt + 1 < MAX_RETRIES THEN "retry" ELSE "throw",
        delay |-> IF RetrySleeps(attempt) THEN RetryDelay(attempt) ELSE 0]

(***************************************************************************)
(* State of SpecRetry                                                      *)
(*   wr  withRetry: fn (what is wrapped), attempt, calls (invocations of   *)
(*       fn), delays slept, lastError, outcome, thrown                     *)
(*   rq  the GitHubClient.request call in progress inside fn: attempt,     *)
(*       log (what each iteration met), delays, lastError, outcome, thrown *)
(*   pg  one call of getAllStarredRepos: its locals, and what it asked of   *)
(*       the upstream and reported to its progress callback                *)
(***************************************************************************)
(*   now       the clock, in ms (Date.now() and the database NOW())        *)
(*   settings  table user_sync_settings, one optional row per user         *)
(*   repos     table starred_repositories; repoSeq its id sequence         *)
(*   updates   table repository_updates; updSeq its id sequence            *)
(*   upstream  what the upstream holds: the star count of each repository  *)
(*   runs      the calls of syncUserRepositories, one record per call      *)
(*   post      the answer of the manual trigger to the latest POST         *)
(*   budget    what the environment may still do: faults to inject, clock  *)
(*             advances, settings writes, upstream changes                 *)
(*   serial    TRUE when the callers start a run only after the previous   *)
(*             one returned                                                *)
(*   cron      the scheduled trigger: its request in progress, the users   *)
(*             it still has to sync, its answer                            *)
(*   due       the latest stand-alone getUsersToSync query and its result  *)
(*   call      the latest stand-alone call of a client method: its name,   *)
(*             the upstream's answer and what the method returned          *)
(***************************************************************************)
VARIABLES wr, rq, pg, now, settings, repos, repoSeq, updates, updSeq,
          upstream, runs, post, budget, serial, cron, due,
          call

retryVars == <<wr, rq>>
pageVars == <<pg>>
dbVars == <<settings, repos, repoSeq, updates, updSeq>>
sweepVars == <<cron, due, call>>
mainVars == <<now, settings, repos, repoSeq, updates, updSeq, upstream, runs,
              post, budget, serial, cron, due, call>>
vars == <<wr, rq, pg, now, settings, repos, repoSeq, updates, updSeq,
          upstream, runs, post, budget, serial, cron, due, call>>

(***************************************************************************)
(* The persistence gateway (src/lib/db.ts) over the tables of the schema   *)
(***************************************************************************)
UserIds == {1, 2}
RepoIds == 1..MaxRepos
NULL == -1

\* a row of users whose access_token is the empty string
NoTokenIds == {3}

\* table users: the users of UserIds exist and hold a credential, the one
\* of NoTokenIds exists without one, any other id has no row
UserRow(id) ==
  [present |-> id \in UserIds \cup NoTokenIds, access_token |-> id \in UserIds]

NoSettings ==
  [present |-> FALSE, sync_enabled |-> TRUE,
   sync_interval_minutes |-> DEFAULT_SYNC_INTERVAL, last_sync_at |-> NULL]

SettingsRow(enabled, minutes, last) ==
  [present |-> TRUE, sync_enabled |-> enabled,
   sync_interval_minutes |-> minutes, last_sync_at |-> last]

\* getSyncSettings: the row, or null (present = FALSE)
GetSyncSettings(tbl, userId) == tbl[userId]

\* the conflict branch writing NULL instead of NOW()
UpdateSyncSettingsResets(tbl, userId, syncEnabled, syncIntervalMinutes, t) ==
  [tbl EXCEPT ![userId] =
     [present |-> TRUE, sync_enabled |-> syncEnabled,
      sync_interval_minutes |-> syncIntervalMinutes, last_sync_at |-> NULL]]

\* updateSyncSettings: INSERT .. ON CONFLICT (user_id) DO UPDATE; the insert
\* leaves last_sync_at NULL, the update sets it to NOW()
UpdateSyncSettings(tbl, userId, syncEnabled, syncIntervalMinutes, t) ==
  IF ~tbl[userId].present
  THEN [tbl EXCEPT ![userId] =
          [present |-> TRUE, sync_enabled |-> syncEnabled,
           sync_interval_minutes |-> syncIntervalMinutes,
           last_sync_at |-> NULL]]
  ELSE [tbl EXCEPT ![userId] =
          [present |-> TRUE, sync_enabled |-> syncEnabled,
           sync_interval_minutes |-> syncIntervalMinutes,
           last_sync_at |-> t]]

\* updateLastSyncTime: UPDATE .. WHERE user_id = userId
UpdateLastSyncTime(tbl, userId, t) ==
  IF tbl[userId].present
  THEN [tbl EXCEPT ![userId].last_sync_at = t]
  ELSE tbl

\* a number of minutes in milliseconds
Minutes(m) == m * 60000

\* s.sync_interval_minutes || '1': in SQL || concatenates, so the decimal
\* text of the minutes followed by the character 1
ConcatOne(minutes) == minutes * 10 + 1

\* what the server makes of (text) * INTERVAL '1 minute': PostgreSQL has no
\* such operator and rejects the statement; a server that coerces the text
\* to a number multiplies the interval by the concatenated value
DueQueryModes == {"rejected", "coerced"}

\* getUsersToSync over the users `ids' that have a row in table users
GetUsersToSync(ids, tbl, t, mode) ==
  IF mode = "rejected"
  THEN [err |-> DatabaseError("Failed to get users to sync", 0), rows |-> {}]
  ELSE [err |-> NoError,
        rows |-> {u \in ids :
                    /\ tbl[u].present
                    /\ tbl[u].sync_enabled
                    /\ \/ tbl[u].last_sync_at = NULL
                       \/ tbl[u].last_sync_at
                            <= t - Minutes(ConcatOne(tbl[u].sync_interval_minutes))}]

\* no getUsersToSync query made yet
DueIdle ==
  [asked |-> FALSE, tbl |-> <<>>, at |-> 0, err |-> NoError, rows |-> {}]

\* the body of a response of the scheduled trigger without a summary
NoSummary ==
  [present |-> FALSE, usersProcessed |-> 0, successfulSyncs |-> 0,
   failedSyncs |-> 0, totalReposSynced |-> 0, totalUpdatesDetected |-> 0,
   errors |-> <<>>]

\* no stand-alone call of a client method was made
NoCall == [fn |-> "", data |-> <<>>, out |-> <<>>]

\* the scheduled trigger before a request
CronIdle ==
  [pc |-> "idle", served |-> 0, status |-> 0, lookups |-> 0, found |-> {},
   input |-> <<>>, todo |-> <<>>, calls |-> <<>>, notes |-> <<>>,
   summary |-> NoSummary,
   request |-> [method |-> "", header |-> <<>>, secret |-> <<>>]]

RepoRowsOf(tbl, userId, githubRepoId) ==
  {row \in tbl : row.user_id = userId /\ row.github_repo_id = githubRepoId}

\* saveRepository with the conflict clause left out
SaveRepositoryNoConflict(tbl, seq, userId, repo, t) ==
  [tbl |-> tbl \cup {[id |-> seq + 1, user_id |-> userId,
                      github_repo_id |-> repo.id, stars |-> repo.stars,
                      fork_count |-> 0, open_issues_count |-> 0,
                      created_at |-> t, updated_at |-> t]},
   seq |-> seq + 1, id |-> seq + 1]

\* saveRepository: INSERT .. ON CONFLICT (user_id, github_repo_id) DO UPDATE
\* .. RETURNING id.  `stars' stands for the columns refreshed from the
\* upstream record; the id sequence advances on every INSERT attempt.
SaveRepository(tbl, seq, userId, repo, t) ==
  LET old == RepoRowsOf(tbl, userId, repo.id) IN
  IF old = {}
  THEN [tbl |-> tbl \cup {[id |-> seq + 1, user_id |-> userId,
                           github_repo_id |-> repo.id, stars |-> repo.stars,
                           fork_count |-> 0, open_issues_count |-> 0,
                           created_at |-> t, updated_at |-> t]},
        seq |-> seq + 1, id |-> seq + 1]
  ELSE LET row == CHOOSE x \in old : TRUE
       IN [tbl |-> (tbl \ {row}) \cup
                     {[row EXCEPT !.stars = repo.stars, !.fork_count = 0,
                                  !.open_issues_count = 0, !.updated_at = t]},
           seq |-> seq + 1, id |-> row.id]

\* getRepositoryByGithubId: the internal id, or null
GetRepositoryByGithubId(tbl, userId, githubRepoId) ==
  LET rows == RepoRowsOf(tbl, userId, githubRepoId) IN
  IF rows = {} THEN NULL ELSE (CHOOSE x \in rows : TRUE).id

\* saveRepositoryUpdate: INSERT .. ON CONFLICT DO NOTHING.  The table has no
\* unique constraint but its primary key, which the sequence fills.
SaveRepositoryUpdate(tbl, seq, repositoryId, update) ==
  LET newId == seq + 1 IN
  IF \E row \in tbl : row.id = newId
  THEN [tbl |-> tbl, seq |-> newId]
  ELSE [tbl |-> tbl \cup {[id |-> newId, repo_id |-> repositoryId,
                           update_type |-> update.type, url |-> update.url,
                           is_read |-> FALSE]},
        seq |-> newId]

\* saveRepositoryUpdateByGithubId: false when the repository row is absent,
\* true after saveRepositoryUpdate returned
SaveRepositoryUpdateByGithubId(rtbl, utbl, seq, userId, repoGithubId, update) ==
  LET repoId == GetRepositoryByGithubId(rtbl, userId, repoGithubId) IN
  IF repoId = NULL
  THEN [tbl |-> utbl, seq |-> seq, saved |-> FALSE]
  ELSE LET r == SaveRepositoryUpdate(utbl, seq, repoId, update)
       IN [tbl |-> r.tbl, seq |-> r.seq, saved |-> TRUE]

\* markUpdatesAsRead: UPDATE .. SET is_read = true for the ids given that
\* belong to a repository row of the user
MarkUpdatesAsRead(rtbl, utbl, userId, updateIds) ==
  {IF /\ x.id \in updateIds
      /\ \E row \in rtbl : row.user_id = userId /\ row.id = x.repo_id
   THEN [x EXCEPT !.is_read = TRUE] ELSE x : x \in utbl}

(***************************************************************************)
(* The upstream: what the stars and activity endpoints answer              *)
(***************************************************************************)
\* the repositories a user has starred, in upstream order: user 1 every
\* repository the upstream holds, user 2 the last of them
StarredOf(stars, userId) ==
  LET n == Cardinality(DOMAIN stars) IN
  IF userId = 1 THEN [k \in 1..n |-> k]
  ELSE IF userId = 2 THEN <<n>>
  ELSE <<>>

\* forks_count and open_issues_count of the upstream record of repository g
UpstreamForks(g) == g
UpstreamOpenIssues(g) == g + 1

StarredRecords(stars, userId) ==
  [k \in 1..Len(StarredOf(stars, userId)) |->
     [id |-> StarredOf(stars, userId)[k],
      stars |-> stars[StarredOf(stars, userId)[k]],
      forks_count |-> UpstreamForks(StarredOf(stars, userId)[k]),
      open_issues_count |-> UpstreamOpenIssues(StarredOf(stars, userId)[k])]]

\* /repos/:owner/:repo/commits
UpstreamCommits(g) == <<[url |-> <<g, "commit", 1>>, pull_request |-> FALSE]>>
\* /repos/:owner/:repo/issues, which lists pull requests too
UpstreamIssues(g) ==
  IF g = 1
  THEN <<[url |-> <<g, "issues", 1>>, pull_request |-> FALSE],
         [url |-> <<g, "pull", 2>>, pull_request |-> TRUE]>>
  ELSE <<>>
\* /repos/:owner/:repo/pulls
UpstreamPulls(g) ==
  IF g = 1 THEN <<[url |-> <<g, "pull", 2>>, pull_request |-> FALSE]>> ELSE <<>>

Take(q, n) == SubSeq(q, 1, Min(n, Len(q)))

\* the filter of getRecentIssues left out
FilterSeqKeepsAll(q, keepPR) == q

RECURSIVE FilterSeq(_, _)
FilterSeq(q, keepPR) ==
  IF Len(q) = 0 THEN <<>>
  ELSE IF q[1].pull_request /\ ~keepPR THEN FilterSeq(Tail(q), keepPR)
  ELSE <<q[1]>> \o FilterSeq(Tail(q), keepPR)

\* getRecentCommits / getRecentIssues (pull requests filtered out) /
\* getRecentPRs, each with per_page = count
ClientItems(kind, g, count) ==
  IF kind = "commit" THEN Take(UpstreamCommits(g), count)
  ELSE IF kind = "issue" THEN FilterSeq(Take(UpstreamIssues(g), count), FALSE)
  ELSE Take(UpstreamPulls(g), count)

\* the errors a client method lets through to its caller
ClientErrors ==
  {NetworkError(maxRetries - 1),
   GitHubApiError("GitHub API error: 401", 401, NoRL, 0),
   GitHubApiError("Not Found", 404, NoRL, 0)}

FnOutcomes == {NoError} \cup ClientErrors
DbOutcomes(message) == {NoError, DatabaseError(message, 0)}

(***************************************************************************)
(* One call of syncUserRepositories                                        *)
(***************************************************************************)
RunIds == 1..MaxRuns

RunIdle ==
  [pc |-> "idle", userId |-> 0,
   startTime |-> 0, allRepos |-> <<>>, i |-> 0, attempt |-> 0,
   kind |-> "none", items |-> <<>>, reposSynced |-> 0, updatesDetected |-> 0,
   errors |-> <<>>, progress |-> <<>>, success |-> FALSE, endTime |-> 0,
   faults |-> <<>>, ops |-> <<>>, rowsAfter |-> <<0, 0>>,
   lastSave |-> [done |-> FALSE, oldId |-> NULL, id |-> NULL],
   lastInsert |-> [done |-> FALSE, existed |-> FALSE, saved |-> FALSE,
                   created |-> FALSE]]

\* the event stream of a POST with ?stream=true: the messages enqueued and
\* whether controller.close() was called
NoStream == [on |-> FALSE, sent |-> <<>>, closed |-> FALSE]

NoPost ==
  [status |-> 0, userId |-> 0, waitTime |-> 0, lastSyncAt |-> NULL,
   at |-> 0, read |-> NoSettings, run |-> 0, stream |-> NoStream]

MainIdle ==
  /\ now = 0
  /\ settings = [u \in UserIds |-> NoSettings]
  /\ repos = {}
  /\ repoSeq = 0
  /\ updates = {}
  /\ updSeq = 0
  /\ upstream = [g \in RepoIds |-> 0]
  /\ runs = [r \in RunIds |-> RunIdle]
  /\ post = NoPost
  /\ budget = [runs |-> 0, faults |-> 0, ticks |-> 0, puts |-> 0]
  /\ serial = TRUE
  /\ cron = CronIdle
  /\ due = DueIdle
  /\ call = NoCall

FnKinds == {"api", "db"}

RqIdle ==
  [attempt |-> 0, log |-> <<>>, delays |-> <<>>, lastError |-> NoError,
   outcome |-> "idle", thrown |-> NoError,
   response |-> [status |-> 0, rl |-> NoRL]]

WrIdle ==
  [fn |-> "none", attempt |-> 0, calls |-> 0, delays |-> <<>>,
   lastError |-> NoError, outcome |-> "idle", thrown |-> NoError]

PgIdle ==
  [pc |-> "idle", maxPages |-> 0, page |-> 1, hasMore |-> TRUE,
   allRepos |-> <<>>, requested |-> <<>>, sizes |-> <<>>, progress |-> <<>>,
   sleeps |-> 0, thrown |-> NoError]

InitRetry ==
  /\ wr = WrIdle
  /\ rq = RqIdle
  /\ pg = PgIdle
  /\ MainIdle

\* withRetry(fn) is called
WrStart(fn) ==
  /\ wr.outcome = "idle"
  /\ wr' = [WrIdle EXCEPT !.fn = fn, !.outcome = "trying"]
  /\ rq' = RqIdle
  /\ UNCHANGED <<pageVars, mainVars>>

\* `return await fn()' begins; for a client method fn enters request()
WrInvoke ==
  /\ wr.outcome = "trying"
  /\ wr.attempt < MAX_RETRIES
  /\ wr' = [wr EXCEPT !.calls = @ + 1, !.outcome = "in_fn"]
  /\ rq' = IF wr.fn = "api" THEN [RqIdle EXCEPT !.outcome = "running"] ELSE RqIdle
  /\ UNCHANGED <<pageVars, mainVars>>

\* the outcome-tag logged for one iteration of request
IterTag(step) ==
  IF step.act = "return" THEN "ok"
  ELSE IF step.act = "continue" THEN "rlwait"
  ELSE IF step.err.cls = "GitHubApiError" THEN "apierr"
  ELSE "transient"

\* one iteration of the for loop of request (lines 249-316), and the
\* `throw lastError || ...' after the loop when it was the last one
RqIterate(out) ==
  /\ wr.outcome = "in_fn"
  /\ rq.outcome = "running"
  /\ rq.attempt < maxRetries
  /\ LET a == rq.attempt
         step == RequestTry(a, out)
         last == IF step.act = "caught" THEN step.err ELSE rq.lastError
         slept == IF step.act = "continue" THEN <<step.delay>>
                  ELSE IF step.act = "caught" /\ RequestCatchSleeps(a, step.err)
                  THEN <<RequestBackoff(a)>>
                  ELSE <<>>
         exits == a + 1 >= maxRetries
         base == [rq EXCEPT !.attempt = a + 1,
                            !.log = Append(@, IterTag(step)),
                            !.delays = @ \o slept,
                            !.lastError = last,
                            !.response = [status |-> out.status,
                                          rl |-> out.rl]]
     IN rq' = IF step.act = "return"
              THEN [base EXCEPT !.outcome = "returned"]
              ELSE IF step.act = "caught" /\ step.err.cls = "GitHubApiError"
              THEN [base EXCEPT !.outcome = "threw", !.thrown = step.err]
              ELSE IF exits
              THEN [base EXCEPT !.outcome = "threw",
                                !.thrown = IF last.cls # "none" THEN last
                                           ELSE RequestFailedError(a)]
              ELSE base
  /\ UNCHANGED <<wr, pageVars, mainVars>>

\* fn settled: withRetry returns, or runs its catch block
WrSettle(fnOk, fnErr) ==
  /\ wr.outcome = "in_fn"
  /\ IF fnOk
     THEN wr' = [wr EXCEPT !.outcome = "returned"]
     ELSE LET c == WithRetryCatch(wr.attempt, fnErr)
          IN wr' = [wr EXCEPT
                      !.lastError = fnErr,
                      !.attempt = IF c.act = "retry" THEN @ + 1 ELSE @,
                      !.delays = IF c.delay > 0 THEN Append(@, c.delay) ELSE @,
                      !.outcome = IF c.act = "retry" THEN "trying" ELSE "threw",
                      !.thrown = IF c.act = "throw" THEN fnErr ELSE @]
  /\ UNCHANGED <<rq, pageVars, mainVars>>

\* a client method returns what request returned, or lets its error through
WrSettleApi ==
  /\ wr.fn = "api"
  /\ rq.outcome \in {"returned", "threw"}
  /\ WrSettle(rq.outcome = "returned", rq.thrown)

\* a persistence call (saveRepository) succeeds or throws DatabaseError
WrSettleDb(ok) ==
  /\ wr.fn = "db"
  /\ WrSettle(ok, DatabaseError("Failed to save repository", wr.attempt))

\* the caller is done with the call; the next call may start
WrReset ==
  /\ wr.outcome \in {"returned", "threw"}
  /\ wr' = WrIdle
  /\ rq' = RqIdle
  /\ UNCHANGED <<pageVars, mainVars>>

NextRetry ==
  \/ \E fn \in FnKinds : WrStart(fn)
  \/ WrInvoke
  \/ \E out \in FetchOutcomes : RqIterate(out)
  \/ WrSettleApi
  \/ \E ok \in BOOLEAN : WrSettleDb(ok)
  \/ WrReset

SpecRetry == InitRetry /\ [][NextRetry]_vars

(***************************************************************************)
(* getAllStarredRepos (SpecPages)                                          *)
(***************************************************************************)
PageSizes == {0, 1, 37, 99, PER_PAGE}
MaxPagesChoices == {1, 2, DEFAULT_MAX_PAGES}

\* the module-level helper request() that getStarredRepos calls: one fetch,
\* no retry and no wait for the quota to reset
RequestHelper(out) ==
  IF out.kind = "neterr" THEN [ok |-> FALSE, err |-> NetworkError(0)]
  ELSE IF ~ResponseOk(out.status)
  THEN [ok |-> FALSE,
        err |-> GitHubApiError(ErrorMessage(out.status, out.body), out.status,
                               out.rl, 0)]
  ELSE IF out.body = "badjson" THEN [ok |-> FALSE, err |-> JsonSyntaxError(0)]
  ELSE [ok |-> TRUE, err |-> NoError]

\* the records the upstream holds on page `page' when it serves `size' of
\* them: starred repositories are numbered in upstream order
UpstreamPage(page, perPage, size) ==
  [j \in 1..size |-> (page - 1) * perPage + j]

\* `data.length === perPage' of getStarredRepos
HasNextPageNonEmpty(data, perPage) == Len(data) > 0
HasNextPage(data, perPage) == Len(data) = perPage

FullPagesServed(sizes) == Cardinality({i \in 1..Len(sizes) : sizes[i] = PER_PAGE})

\* the loop going on for as long as the upstream announces a next page
LoopTestUncapped(hasMore, page, maxPages) == hasMore

\* line 372: while (hasMore && page <= maxPages)
LoopTest(hasMore, page, maxPages) == hasMore /\ page <= maxPages

GetAllStart(mp) ==
  /\ pg.pc = "idle"
  /\ pg' = [PgIdle EXCEPT !.pc = "loop", !.maxPages = mp]
  /\ UNCHANGED <<retryVars, mainVars>>

\* one iteration of the while loop (lines 372-388): getStarredRepos(page,
\* perPage), push, onProgress, hasMore, page++, the sleep; then the loop
\* test, and `return allRepos' when it fails
GetAllIterate(out, size) ==
  /\ pg.pc = "loop"
  /\ LoopTest(pg.hasMore, pg.page, pg.maxPages)
  /\ size = PER_PAGE => FullPagesServed(pg.sizes) < MaxFullPages
  /\ LET r == RequestHelper(out)
         data == UpstreamPage(pg.page, Min(PER_PAGE, 100), size)
         all == pg.allRepos \o data
         more == HasNextPage(data, PER_PAGE)
         asked == Append(pg.requested, pg.page)
     IN IF ~r.ok
        THEN pg' = [pg EXCEPT !.pc = "threw", !.thrown = r.err,
                              !.requested = asked]
        ELSE pg' = [pg EXCEPT
                      !.allRepos = all,
                      !.requested = asked,
                      !.sizes = Append(@, size),
                      !.progress = Append(@, <<pg.page, Len(all)>>),
                      !.hasMore = more,
                      !.page = @ + 1,
                      !.sleeps = IF more THEN @ + 1 ELSE @,
                      !.pc = IF LoopTest(more, pg.page + 1, pg.maxPages)
                             THEN "loop" ELSE "returned"]
  /\ UNCHANGED <<retryVars, mainVars>>

GetAllReset ==
  /\ pg.pc \in {"returned", "threw"}
  /\ pg' = PgIdle
  /\ UNCHANGED <<retryVars, mainVars>>

InitPages == InitRetry

NextPages ==
  \/ \E mp \in MaxPagesChoices : GetAllStart(mp)
  \/ \E out \in FetchOutcomes, size \in PageSizes : GetAllIterate(out, size)
  \/ GetAllReset

SpecPages == InitPages /\ [][NextPages]_vars

RECURSIVE SumSeq(_)
SumSeq(q) == IF Len(q) = 0 THEN 0 ELSE q[1] + SumSeq(Tail(q))

\* C10: with the default page cap getAllStarredRepos asks for pages 1,2,3,..
\* in turn, goes on exactly while the pages are full (100 records) and
\* returns after the first shorter one; it returns the records of the pages
\* in page order and has called the progress callback once per page with
\* (page number, cumulative count); for pages of 100, 100 and 37 records it
\* returns 237 records after exactly 3 page fetches.
PaginationTermination ==
  pg.maxPages = DEFAULT_MAX_PAGES =>
    LET n == Len(pg.sizes) IN
    /\ \A i \in 1..Len(pg.requested) : pg.requested[i] = i
    /\ \A i \in 1..(n - 1) : pg.sizes[i] = PER_PAGE
    /\ pg.pc = "loop" => (\A i \in 1..n : pg.sizes[i] = PER_PAGE) /\ Len(pg.requested) = n
    /\ pg.pc = "returned" =>
         /\ n >= 1 /\ pg.sizes[n] < PER_PAGE
         /\ Len(pg.requested) = n
         /\ Len(pg.allRepos) = SumSeq(pg.sizes)
         /\ \A k \in 1..Len(pg.allRepos) : pg.allRepos[k] = k
         /\ Len(pg.progress) = n
         /\ \A i \in 1..n :
               pg.progress[i] = <<i, SumSeq(SubSeq(pg.sizes, 1, i))>>
         /\ pg.sizes = <<100, 100, 37>>
               => Len(pg.allRepos) = 237 /\ Len(pg.requested) = 3

\* the call returned after pages of 100, 100 and 37 records
PaginationThreePages ==
  /\ pg.pc = "returned" /\ pg.maxPages = DEFAULT_MAX_PAGES
  /\ pg.sizes = <<100, 100, 37>>

(***************************************************************************)
(* Properties of the retry loops                                           *)
(***************************************************************************)
LastTag(log) == IF Len(log) = 0 THEN "none" ELSE log[Len(log)]

\* the error the final invocation of fn threw
FinalFnError ==
  IF wr.fn = "api" THEN rq.thrown
  ELSE DatabaseError("Failed to save repository", wr.calls - 1)

IsQuotaExhaustion(err) ==
  err.status = 403 /\ err.rl.present /\ err.rl.remaining = 0

\* C6: a call wrapped by withRetry that fails with an upstream 401 response
\* is not attempted again and no backoff delay is slept for it: the error is
\* thrown by the attempt that caught it.
AuthErrorNeverRetried ==
  (wr.lastError.cls = "GitHubApiError" /\ wr.lastError.status = 401)
     => /\ wr.outcome = "threw"
        /\ wr.thrown = wr.lastError
        /\ Len(wr.delays) = wr.calls - 1

\* C7: a well-formed upstream error response other than quota exhaustion is
\* not retried, neither by request nor by withRetry around the client call:
\* the operation that received it is not issued again.
UpstreamErrorNotRetried ==
  /\ rq.lastError.cls = "GitHubApiError"
        => rq.outcome = "threw" /\ rq.thrown = rq.lastError
  /\ (wr.lastError.cls = "GitHubApiError" /\ ~IsQuotaExhaustion(wr.lastError))
        => /\ wr.outcome = "threw"
           /\ wr.thrown = wr.lastError
           /\ Len(wr.delays) = wr.calls - 1

(***************************************************************************)
(* Spec: sync runs, the database, the clock and the manual trigger         *)
(***************************************************************************)
NaN == -2
CallableIds == UserIds
Sessions ==
  [user : UserIds, accessToken : {TRUE}]
  \cup {[user |-> 0, accessToken |-> FALSE], [user |-> NaN, accessToken |-> TRUE]}
PutUsers == {1}
TickSteps == {1, 120000, 299999, 300000}
PutChoices == {<<"absent", NULL>>, <<"false", NULL>>, <<"true", 29>>}

\* Math.floor(a / b)
FloorDiv(a, b) == a \div b
\* Math.ceil(a / b)
CeilDiv(a, b) == -((-a) \div b)

Active(r) == runs[r].pc \notin {"idle", "done"}

\* the two callers of syncUserRepositories: the cron route through syncUsers
\* and the manual trigger
Callers == {"cron", "manual"}

\* the manual trigger awaits the call it made
ManualBusy == post.run \in RunIds /\ Active(post.run)
\* syncUsers awaits each call before the next
CronBusy == \E q \in RunIds : Active(q) /\ q # post.run

\* run records are used in order, each once; a serial caller waits for the
\* previous call to return
CanStart(r) ==
  /\ budget.runs > 0
  /\ runs[r].pc = "idle"
  /\ \A q \in RunIds : q < r => runs[q].pc # "idle"
  /\ serial => \A q \in RunIds : ~Active(q)

\* the time withRetry sleeps after catching e on `attempt'
Slept(attempt, e) ==
  IF e.cls = "none" THEN 0 ELSE WithRetryCatch(attempt, e).delay

CanFail(e) == e.cls = "none" \/ budget.faults > 0
Spend(e) == IF e.cls = "none" THEN budget ELSE [budget EXCEPT !.faults = @ - 1]

\* the environment of a serial caller acts between the calls
Quiet == serial => \A q \in RunIds : ~Active(q)

Started == [budget EXCEPT !.runs = @ - 1]

Begin(u) ==
  [RunIdle EXCEPT !.pc = "getUser", !.userId = u, !.startTime = now]

\* onProgress?.(event): the events the run hands to its callback
Emit(run, stage, current, total) ==
  [run EXCEPT !.progress =
     Append(@, [stage |-> stage, current |-> current, total |-> total])]

Noted(run, op, repo) ==
  [run EXCEPT !.faults = Append(@, [op |-> op, repo |-> repo])]

\* the calls the run has made on a repository, in the order it made them:
\* saveRepository, the three activity reads with the count they ask for,
\* saveRepositoryUpdateByGithubId
Called(run, op, repo, count) ==
  [run EXCEPT !.ops = Append(@, [op |-> op, repo |-> repo, count |-> count])]

RowCounts(rtbl, utbl, u) ==
  <<Cardinality({row \in rtbl : row.user_id = u}),
    Cardinality({x \in utbl :
                   \E row \in rtbl : row.user_id = u /\ row.id = x.repo_id})>>

Return(run, success, rtbl, utbl) ==
  [run EXCEPT !.pc = "done", !.success = success, !.endTime = now,
              !.rowsAfter = RowCounts(rtbl, utbl, run.userId)]

\* the outer catch block returning without the message pushed
FatalCatchSilent(run, msg) == Return(run, FALSE, repos, updates)

\* the outer catch block letting the error through to the caller
FatalCatchRethrows(run, msg) == [run EXCEPT !.pc = "thrown"]

\* the outer catch block (lines 836-849)
FatalCatch(run, msg) ==
  Return([run EXCEPT !.errors = Append(@, [kind |-> "fatal", repo |-> 0,
                                           msg |-> msg])],
         FALSE, repos, updates)

\* the updates stage over every fetched repository
ReposToUpdateAll(run) == run.allRepos

\* line 742: allRepos.slice(0, 20)
ReposToUpdate(run) == Take(run.allRepos, UPDATE_CAP)

\* the updates stage announced with the stage of the first event
EnterUpdatesRewinds(run) ==
  LET e == Emit(run, "fetching", 0, Len(run.allRepos)) IN
  IF Len(ReposToUpdate(run)) = 0
  THEN [e EXCEPT !.pc = "lastSync"]
  ELSE [e EXCEPT !.pc = "activity", !.i = 1, !.kind = "commit", !.attempt = 0]

\* line 734-744: the updates stage begins
EnterUpdates(run) ==
  LET e == Emit(run, "updates", 0, Len(run.allRepos)) IN
  IF Len(ReposToUpdate(run)) = 0
  THEN [e EXCEPT !.pc = "lastSync"]
  ELSE [e EXCEPT !.pc = "activity", !.i = 1, !.kind = "commit", !.attempt = 0]

\* the saving loop left after its first iteration
AdvanceSaveStops(run) == EnterUpdates(run)

\* the saving loop moves on
AdvanceSave(run) ==
  IF run.i < Len(run.allRepos)
  THEN [run EXCEPT !.i = @ + 1, !.attempt = 0]
  ELSE EnterUpdates(run)

\* line 691-698: the saving stage begins
EnterSaving(run, fetched) ==
  LET e == Emit([run EXCEPT !.allRepos = fetched], "saving", 0, Len(fetched)) IN
  IF Len(fetched) = 0 THEN EnterUpdates(e)
  ELSE [e EXCEPT !.pc = "save", !.i = 1, !.attempt = 0]

\* the updates loop moves on to the next repository
NextRepo(run) ==
  IF run.i < Len(ReposToUpdate(run))
  THEN [run EXCEPT !.pc = "activity", !.i = @ + 1, !.kind = "commit",
                   !.attempt = 0, !.items = <<>>]
  ELSE [run EXCEPT !.pc = "lastSync", !.items = <<>>]

\* the catch block of the updates loop leaving the loop
RepoCatchBreaks(run, err) ==
  [run EXCEPT !.pc = "lastSync", !.items = <<>>,
              !.errors =
                 Append(@, [kind |-> "updates", repo |-> run.allRepos[run.i].id,
                            msg |-> err.msg])]

\* the per-repository catch block of the updates loop (lines 811-815)
RepoCatch(run, err) ==
  NextRepo([run EXCEPT !.errors =
              Append(@, [kind |-> "updates", repo |-> run.allRepos[run.i].id,
                         msg |-> err.msg])])

\* the items of one kind are done: next kind, or the end of the iteration
\* (progress every 5th repository and on the last one, then the sleep)
AfterItems(run) ==
  IF run.kind = "commit"
  THEN [run EXCEPT !.pc = "activity", !.kind = "issue", !.attempt = 0]
  ELSE IF run.kind = "issue"
  THEN [run EXCEPT !.pc = "activity", !.kind = "pr", !.attempt = 0]
  ELSE LET m == Len(ReposToUpdate(run)) IN
       NextRepo(IF run.i % UPDATES_PROGRESS_EVERY = 0 \/ run.i = m
                THEN Emit(run, "updates", run.i, m)
                ELSE run)

\* the try block of an updates iteration reaches `await sleep(100)'
IterationEnds(run, itemsLeft) == run.kind = "pr" /\ itemsLeft = 0

\* syncUsers (line 865) calls syncUserRepositories(userId)
CallSync(r, u) ==
  /\ CanStart(r)
  /\ ~CronBusy
  /\ runs' = [runs EXCEPT ![r] = Begin(u)]
  /\ budget' = Started
  /\ UNCHANGED <<retryVars, pageVars, sweepVars, now, dbVars, upstream, post, serial>>

\* a guard that also turns a request away while a run is in progress
CooldownLocks(syncSettings, t) ==
  [reject |-> \E q \in RunIds : Active(q), waitTime |-> 1]

\* lines 38-56 of the manual trigger: the test of the last sync against
\* MIN_SYNC_INTERVAL_MS at time t
Cooldown(syncSettings, t) ==
  LET lastSync == syncSettings.last_sync_at
      timeSinceLastSync == t - lastSync
  IN IF syncSettings.present /\ lastSync # NULL
        /\ timeSinceLastSync < MIN_SYNC_INTERVAL_MS
     THEN [reject |-> TRUE,
           waitTime |-> CeilDiv(MIN_SYNC_INTERVAL_MS - timeSinceLastSync, 1000)]
     ELSE [reject |-> FALSE, waitTime |-> 0]

\* the status check allowing a sync only after more than the interval
SyncStatusStrict(syncSettings, t) ==
  LET lastSync == syncSettings.last_sync_at
      canSync == ~syncSettings.present \/ lastSync = NULL
                 \/ t - lastSync > MIN_SYNC_INTERVAL_MS
  IN [status |-> 200, canSync |-> canSync,
      waitTime |-> IF canSync THEN 0
                   ELSE CeilDiv(MIN_SYNC_INTERVAL_MS - (t - lastSync), 1000)]

\* lines 152-181: the body of the status check; without a last sync the
\* time since it is Infinity
SyncStatus(syncSettings, t) ==
  IF ~syncSettings.present
  THEN [status |-> 200, canSync |-> TRUE, waitTime |-> 0]
  ELSE LET lastSync == syncSettings.last_sync_at
           canSync == lastSync = NULL
                      \/ t - lastSync >= MIN_SYNC_INTERVAL_MS
       IN [status |-> 200, canSync |-> canSync,
           waitTime |-> IF canSync THEN 0
                        ELSE CeilDiv(MIN_SYNC_INTERVAL_MS - (t - lastSync),
                                     1000)]

\* GET of the manual trigger: the status check of a session
ManualGet(sess) ==
  /\ sess.user # NaN
  /\ call' = [fn |-> "GET", data |-> <<sess.user, now>>,
              out |-> IF sess.user = 0
                      THEN [status |-> 401, canSync |-> FALSE, waitTime |-> 0]
                      ELSE SyncStatus(GetSyncSettings(settings, sess.user),
                                      now)]
  /\ UNCHANGED <<retryVars, pageVars, cron, due, now, dbVars, upstream, runs,
                 post, budget, serial>>

\* POST of the manual trigger up to the call of syncUserRepositories;
\* `stream' is url.searchParams.get('stream') === 'true'
ManualHandle(r, sess, e, stream) ==
  /\ CanStart(r)
  /\ CanFail(e)
  /\ e \in DbOutcomes("Failed to get sync settings")
  /\ LET answer(status, wait, last, read, run) ==
           [status |-> status, userId |-> sess.user, waitTime |-> wait,
            lastSyncAt |-> last, at |-> now, read |-> read, run |-> run,
            stream |-> [NoStream EXCEPT !.on = stream /\ run # 0]]
     IN
     IF sess.user = 0 \/ ~sess.accessToken
     THEN /\ e.cls = "none"
          /\ post' = answer(401, 0, NULL, NoSettings, 0)
          /\ budget' = Started
          /\ UNCHANGED runs
     ELSE IF sess.user = NaN
     THEN /\ e.cls = "none"
          /\ post' = answer(400, 0, NULL, NoSettings, 0)
          /\ budget' = Started
          /\ UNCHANGED runs
     ELSE IF e.cls # "none"
     THEN /\ post' = answer(500, 0, NULL, NoSettings, 0)
          /\ budget' = [Started EXCEPT !.faults = @ - 1]
          /\ UNCHANGED runs
     ELSE LET syncSettings == GetSyncSettings(settings, sess.user)
              lastSync == syncSettings.last_sync_at
              guard == Cooldown(syncSettings, now)
          IN IF guard.reject
             THEN /\ post' = answer(429, guard.waitTime, lastSync,
                                    syncSettings, 0)
                  /\ budget' = Started
                  /\ UNCHANGED runs
             ELSE /\ post' = answer(0, 0, NULL, syncSettings, r)
                  /\ runs' = [runs EXCEPT ![r] = Begin(sess.user)]
                  /\ budget' = Started
  /\ UNCHANGED <<retryVars, pageVars, sweepVars, now, dbVars, upstream, serial>>

\* one request to the manual trigger at a time
ManualAnswer(r, sess, e, stream) ==
  ~ManualBusy /\ ManualHandle(r, sess, e, stream)

\* a request to the manual trigger that may arrive while the run of an
\* earlier request is in progress; post follows the later request
ManualOverlap(r, sess, e) == ManualHandle(r, sess, e, FALSE)

\* the POST answered with JSON once the run has returned (lines 103-122)
ManualPost(r, sess, e) == ManualAnswer(r, sess, e, FALSE)

\* the POST answered with an event stream (lines 64-101)
ManualStream(r, sess, e) == ManualAnswer(r, sess, e, TRUE)

\* a message of the event stream
Message(type, event, result) ==
  [type |-> type, stage |-> event.stage, current |-> event.current,
   total |-> event.total, success |-> result.success,
   reposSynced |-> result.reposSynced,
   updatesDetected |-> result.updatesDetected, errors |-> result.errors]

NoEvent == [stage |-> "", current |-> 0, total |-> 0]
NoResult ==
  [success |-> FALSE, reposSynced |-> 0, updatesDetected |-> 0, errors |-> <<>>]

\* the stream left open after the final result
SendResultOpen(stream, run) ==
  [stream EXCEPT !.sent = Append(@, Message("complete", NoEvent, run))]

\* lines 80-84: the final result is enqueued and the stream closed
SendResult(stream, run) ==
  [stream EXCEPT !.sent = Append(@, Message("complete", NoEvent, run)),
                 !.closed = TRUE]

\* sendProgress (lines 72-75) for each event the step of run r handed to
\* its callback, then the final result if the step returned
Deliver(r) ==
  IF post.run = r /\ post.stream.on
  THEN LET was == Len(runs[r].progress)
           run == runs'[r]
           fresh == [i \in 1..(Len(run.progress) - was) |->
                       Message("progress", run.progress[was + i], NoResult)]
           sent == [post.stream EXCEPT !.sent = @ \o fresh]
       IN post' = [post EXCEPT !.stream =
                     IF run.pc = "done" THEN SendResult(sent, run) ELSE sent]
  ELSE UNCHANGED post

\* the test skipped
SyncDisabledNever(syncSettings) == FALSE

\* syncSettings && !syncSettings.sync_enabled
SyncDisabled(syncSettings) ==
  syncSettings.present /\ ~syncSettings.sync_enabled

\* lines 646-653: getUserWithToken and the two fail-fast tests
RunGetUser(r, e) ==
  /\ runs[r].pc = "getUser"
  /\ e \in DbOutcomes("Failed to get user with token")
  /\ CanFail(e)
  /\ LET run == runs[r]
         user == UserRow(run.userId)
     IN runs' = [runs EXCEPT ![r] =
          IF e.cls # "none" THEN FatalCatch(Noted(run, "getUser", 0), e.msg)
          ELSE IF ~user.present THEN FatalCatch(run, "User not found")
          ELSE IF ~user.access_token THEN FatalCatch(run, "User has no access token")
          ELSE [run EXCEPT !.pc = "getSettings"]]
  /\ budget' = Spend(e)
  /\ UNCHANGED <<retryVars, pageVars, sweepVars, now, dbVars, upstream, serial>>
  /\ Deliver(r)

\* lines 656-677: getSyncSettings, the disabled return, the first event
RunGetSettings(r, e) ==
  /\ runs[r].pc = "getSettings"
  /\ e \in DbOutcomes("Failed to get sync settings")
  /\ CanFail(e)
  /\ LET run == runs[r]
         syncSettings == GetSyncSettings(settings, run.userId)
     IN runs' = [runs EXCEPT ![r] =
          IF e.cls # "none" THEN FatalCatch(Noted(run, "getSettings", 0), e.msg)
          ELSE IF SyncDisabled(syncSettings)
          THEN Return([run EXCEPT !.errors =
                         <<[kind |-> "disabled", repo |-> 0,
                            msg |-> "Sync is disabled for this user"]>>],
                      FALSE, repos, updates)
          ELSE [Emit(run, "fetching", 0, 0) EXCEPT !.pc = "fetch", !.attempt = 0]]
  /\ budget' = Spend(e)
  /\ UNCHANGED <<retryVars, pageVars, sweepVars, now, dbVars, upstream, serial>>
  /\ Deliver(r)

\* lines 679-696: one attempt of withRetry(getAllStarredRepos); the starred
\* list fits one page, reported as (1, N)
RunFetch(r, e) ==
  /\ runs[r].pc = "fetch"
  /\ e \in FnOutcomes
  /\ CanFail(e)
  /\ LET run == runs[r]
         fetched == StarredRecords(upstream, run.userId)
         c == WithRetryCatch(run.attempt, e)
     IN runs' = [runs EXCEPT ![r] =
          IF e.cls = "none"
          THEN EnterSaving(Emit(run, "fetching", 1, Len(fetched)), fetched)
          ELSE IF c.act = "retry"
          THEN [Noted(run, "fetch", 0) EXCEPT !.attempt = @ + 1]
          ELSE FatalCatch(Noted(run, "fetch", 0), e.msg)]
  /\ now' = now + Slept(runs[r].attempt, e)
  /\ budget' = Spend(e)
  /\ UNCHANGED <<retryVars, pageVars, sweepVars, dbVars, upstream, serial>>
  /\ Deliver(r)

\* the upsert returning without the counter moved
SaveReturnedUncounted(run, oldId, id) ==
  [run EXCEPT !.lastSave = [done |-> TRUE, oldId |-> oldId, id |-> id]]

\* line 716: withRetry(saveRepository) returned, reposSynced++
SaveReturned(run, oldId, id) ==
  [run EXCEPT !.reposSynced = @ + 1,
              !.lastSave = [done |-> TRUE, oldId |-> oldId, id |-> id]]

\* lines 698-731: one attempt of withRetry(saveRepository) for allRepos[i]
RunSave(r, e) ==
  /\ runs[r].pc = "save"
  /\ e \in DbOutcomes("Failed to save repository")
  /\ CanFail(e)
  /\ LET repo == runs[r].allRepos[runs[r].i]
         run == Called(runs[r], "save", repo.id, 0)
         n == Len(run.allRepos)
         s == SaveRepository(repos, repoSeq, run.userId, repo, now)
         c == WithRetryCatch(run.attempt, e)
     IN IF e.cls = "none"
        THEN /\ repos' = s.tbl
             /\ repoSeq' = s.seq
             /\ runs' = [runs EXCEPT ![r] =
                  LET counted == SaveReturned(run,
                                   GetRepositoryByGithubId(repos, run.userId,
                                                           repo.id),
                                   s.id)
                  IN
                  AdvanceSave(IF run.i % SAVING_PROGRESS_EVERY = 0 \/ run.i = n
                              THEN Emit(counted, "saving", run.i, n)
                              ELSE counted)]
        ELSE /\ UNCHANGED <<repos, repoSeq>>
             /\ runs' = [runs EXCEPT ![r] =
                  IF c.act = "retry"
                  THEN [Noted(run, "save", repo.id) EXCEPT !.attempt = @ + 1]
                  ELSE AdvanceSave([Noted(run, "save", repo.id) EXCEPT !.errors =
                         Append(@, [kind |-> "save", repo |-> repo.id,
                                    msg |-> e.msg])])]
  /\ now' = now + Slept(runs[r].attempt, e)
  /\ budget' = Spend(e)
  /\ UNCHANGED <<retryVars, pageVars, sweepVars, settings, updates, updSeq, upstream, serial>>
  /\ Deliver(r)

\* lines 750/767/784: one attempt of withRetry around getRecentCommits,
\* getRecentIssues or getRecentPRs for reposToUpdate[i]
RunActivity(r, e) ==
  /\ runs[r].pc = "activity"
  /\ e \in FnOutcomes
  /\ CanFail(e)
  /\ LET repo == runs[r].allRepos[runs[r].i]
         run == Called(runs[r], runs[r].kind, repo.id, ACTIVITY_COUNT)
         items == ClientItems(run.kind, repo.id, ACTIVITY_COUNT)
         c == WithRetryCatch(run.attempt, e)
     IN /\ runs' = [runs EXCEPT ![r] =
             IF e.cls = "none"
             THEN IF Len(items) = 0 THEN AfterItems(run)
                  ELSE [run EXCEPT !.pc = "insert", !.items = items]
             ELSE IF c.act = "retry"
             THEN [Noted(run, run.kind, repo.id) EXCEPT !.attempt = @ + 1]
             ELSE RepoCatch(Noted(run, run.kind, repo.id), e)]
        /\ now' = now + Slept(run.attempt, e)
                  + (IF e.cls = "none" /\ IterationEnds(run, Len(items))
                     THEN REPO_DELAY_MS ELSE 0)
  /\ budget' = Spend(e)
  /\ UNCHANGED <<retryVars, pageVars, sweepVars, dbVars, upstream, serial>>
  /\ Deliver(r)

\* lines 755/772/789: saveRepositoryUpdateByGithubId for the next item, and
\* `if (saved) updatesDetected++'
RunInsert(r, e) ==
  /\ runs[r].pc = "insert"
  /\ e \in DbOutcomes("Failed to save repository update by GitHub ID")
  /\ CanFail(e)
  /\ LET repo == runs[r].allRepos[runs[r].i]
         run == Called(runs[r], "insert", repo.id, 0)
         item == run.items[1]
         update == [type |-> run.kind, url |-> item.url]
         s == SaveRepositoryUpdateByGithubId(repos, updates, updSeq,
                                             run.userId, repo.id, update)
         repoId == GetRepositoryByGithubId(repos, run.userId, repo.id)
         existed == \E x \in updates : x.repo_id = repoId /\ x.url = item.url
     IN IF e.cls = "none"
        THEN /\ updates' = s.tbl
             /\ updSeq' = s.seq
             /\ runs' = [runs EXCEPT ![r] =
                  LET after == [run EXCEPT
                                  !.updatesDetected = IF s.saved THEN @ + 1 ELSE @,
                                  !.items = Tail(@),
                                  !.lastInsert = [done |-> TRUE, existed |-> existed,
                                                  saved |-> s.saved,
                                                  created |-> s.tbl # updates]]
                  IN IF Len(after.items) = 0 THEN AfterItems(after) ELSE after]
             /\ now' = now + (IF IterationEnds(run, Len(run.items) - 1)
                               THEN REPO_DELAY_MS ELSE 0)
        ELSE /\ UNCHANGED <<updates, updSeq, now>>
             /\ runs' = [runs EXCEPT ![r] =
                  RepoCatch(Noted(run, "insert", repo.id), e)]
  /\ budget' = Spend(e)
  /\ UNCHANGED <<retryVars, pageVars, sweepVars, settings, repos, repoSeq, upstream, serial>>
  /\ Deliver(r)

\* lines 818-835: updateLastSyncTime, the complete event, the result
RunUpdateLastSync(r, e) ==
  /\ runs[r].pc = "lastSync"
  /\ e \in DbOutcomes("Failed to update last sync time")
  /\ CanFail(e)
  /\ LET run == runs[r]
         n == Len(run.allRepos)
     IN IF e.cls = "none"
        THEN /\ settings' = UpdateLastSyncTime(settings, run.userId, now)
             /\ runs' = [runs EXCEPT ![r] =
                  Return(Emit(run, "complete", n, n), TRUE, repos, updates)]
        ELSE /\ UNCHANGED settings
             /\ runs' = [runs EXCEPT ![r] =
                  FatalCatch(Noted(run, "lastSync", 0), e.msg)]
  /\ budget' = Spend(e)
  /\ UNCHANGED <<retryVars, pageVars, sweepVars, now, repos, repoSeq, updates, updSeq,
                 upstream, serial>>
  /\ Deliver(r)

\* the validation without its upper limit
ValidIntervalNoUpper(v) == v # NaN /\ v >= MIN_INTERVAL_MINUTES

\* lines 56-60 negated: a number (NaN stands for a value of another type)
\* from 30 to 1440
ValidInterval(v) ==
  v # NaN /\ v >= MIN_INTERVAL_MINUTES /\ v <= MAX_INTERVAL_MINUTES

\* PUT /api/settings/sync of an authenticated user
PutSettings(u, enabledIn, intervalIn) ==
  /\ budget.puts > 0
  /\ Quiet
  /\ LET syncEnabled == enabledIn # "false"
         syncIntervalMinutes == IF intervalIn = NULL THEN DEFAULT_SYNC_INTERVAL
                                ELSE intervalIn
         answer(status) == [fn |-> "PUT", data |-> <<enabledIn, intervalIn>>,
                            out |-> <<status>>]
     IN IF ~ValidInterval(syncIntervalMinutes)
        THEN /\ UNCHANGED settings
             /\ call' = answer(400)
        ELSE /\ settings' = UpdateSyncSettings(settings, u, syncEnabled,
                                               syncIntervalMinutes, now)
             /\ call' = answer(200)
  /\ budget' = [budget EXCEPT !.puts = @ - 1]
  /\ UNCHANGED <<retryVars, pageVars, cron, due, now, repos, repoSeq, updates,
                 updSeq, upstream, runs, post, serial>>

\* time passes
Tick(d) ==
  /\ budget.ticks > 0
  /\ Quiet
  /\ now' = now + d
  /\ budget' = [budget EXCEPT !.ticks = @ - 1]
  /\ UNCHANGED <<retryVars, pageVars, sweepVars, dbVars, upstream, runs, post, serial>>

RetryIdle == wr = WrIdle /\ rq = RqIdle /\ pg = PgIdle

EmptyStore ==
  /\ now = 0
  /\ settings = [u \in UserIds |-> NoSettings]
  /\ repos = {}
  /\ repoSeq = 0
  /\ updates = {}
  /\ updSeq = 0
  /\ upstream = [g \in RepoIds |-> 0]
  /\ runs = [r \in RunIds |-> RunIdle]
  /\ post = NoPost
  /\ cron = CronIdle
  /\ due = DueIdle
  /\ call = NoCall

\* Spec: the callers are serial, nothing fails, the clock and the settings
\* move between the calls
Init ==
  /\ RetryIdle
  /\ EmptyStore
  /\ budget = [runs |-> MaxRuns, faults |-> 0, ticks |-> MaxTicks,
               puts |-> MaxPuts]
  /\ serial = TRUE

Next ==
  \/ \E r \in RunIds, u \in CallableIds : CallSync(r, u)
  \/ \E r \in RunIds, sess \in Sessions,
        e \in DbOutcomes("Failed to get sync settings") :
          ManualPost(r, sess, e)
  \/ \E r \in RunIds, e \in DbOutcomes("Failed to get user with token") :
          RunGetUser(r, e)
  \/ \E r \in RunIds, e \in DbOutcomes("Failed to get sync settings") :
          RunGetSettings(r, e)
  \/ \E r \in RunIds, e \in FnOutcomes : RunFetch(r, e)
  \/ \E r \in RunIds, e \in DbOutcomes("Failed to save repository") :
          RunSave(r, e)
  \/ \E r \in RunIds, e \in FnOutcomes : RunActivity(r, e)
  \/ \E r \in RunIds,
        e \in DbOutcomes("Failed to save repository update by GitHub ID") :
          RunInsert(r, e)
  \/ \E r \in RunIds, e \in DbOutcomes("Failed to update last sync time") :
          RunUpdateLastSync(r, e)
  \/ \E u \in PutUsers, c \in PutChoices : PutSettings(u, c[1], c[2])
  \/ \E d \in TickSteps : Tick(d)

Spec == Init /\ [][Next]_vars

\* the steps of the calls and their two entry points
NextRun ==
  \/ \E r \in RunIds, u \in CallableIds : CallSync(r, u)
  \/ \E r \in RunIds, sess \in Sessions,
        e \in DbOutcomes("Failed to get sync settings") :
          ManualPost(r, sess, e)
  \/ \E r \in RunIds, e \in DbOutcomes("Failed to get user with token") :
          RunGetUser(r, e)
  \/ \E r \in RunIds, e \in DbOutcomes("Failed to get sync settings") :
          RunGetSettings(r, e)
  \/ \E r \in RunIds, e \in FnOutcomes : RunFetch(r, e)
  \/ \E r \in RunIds, e \in DbOutcomes("Failed to save repository") :
          RunSave(r, e)
  \/ \E r \in RunIds, e \in FnOutcomes : RunActivity(r, e)
  \/ \E r \in RunIds,
        e \in DbOutcomes("Failed to save repository update by GitHub ID") :
          RunInsert(r, e)
  \/ \E r \in RunIds, e \in DbOutcomes("Failed to update last sync time") :
          RunUpdateLastSync(r, e)

\* SpecFault: one call, in which up to MaxFaults operations fail
InitFault ==
  /\ RetryIdle
  /\ EmptyStore
  /\ budget = [runs |-> 1, faults |-> MaxFaults, ticks |-> 0, puts |-> 0]
  /\ serial = TRUE

SpecFault == InitFault /\ [][NextRun]_vars

\* SpecConc: a request of each caller, neither waiting for the other, so
\* that a scheduled and a manual call overlap; nothing fails
InitConc ==
  /\ RetryIdle
  /\ EmptyStore
  /\ budget = [runs |-> Cardinality(Callers), faults |-> 0, ticks |-> 0,
               puts |-> 0]
  /\ serial = FALSE

SpecConc == InitConc /\ [][NextRun]_vars

TagCount(log, tag) == Cardinality({i \in 1..Len(log) : log[i] = tag})

\* C12: the quota waits of request (403, no quota left, reset in less than
\* an hour) use up none of its attempts: request never gives up on the
\* iteration that slept for the quota, and when it gives up for lack of
\* attempts it has made maxRetries attempts that failed transiently.
QuotaWaitsKeepBudget ==
  rq.outcome = "threw" =>
    /\ LastTag(rq.log) # "rlwait"
    /\ rq.thrown.cls # "GitHubApiError"
          => TagCount(rq.log, "transient") = maxRetries

\* C13: a request that fails on an iteration that received a well-formed
\* error response throws a GitHubApiError with the status and the rate-limit
\* snapshot of that response; one given up on a response that reported the
\* quota exhausted throws it with status 403 and the snapshot.
FailureSignalled ==
  (rq.outcome = "threw" /\ rq.response.status \in ErrStatuses)
    => /\ rq.thrown.cls = "GitHubApiError"
       /\ rq.thrown.status = rq.response.status
       /\ rq.thrown.rl = rq.response.rl

(***************************************************************************)
(* The scheduled trigger (src/app/api/sync-check/route.ts).  A header or a *)
(* secret is the sequence of its pieces, "Bearer " being the 7-character   *)
(* prefix; the empty sequence is a missing header or an unset secret.      *)
(***************************************************************************)
CronSecrets == {<<>>, <<"s3cret">>, <<"Bearer ", "s3cret">>}
CronHeaders ==
  {<<>>, <<"s3cret">>, <<"Bearer ", "s3cret">>, <<"wrong">>,
   <<"Bearer ", "wrong">>, <<"bearer ", "s3cret">>, <<"Bearer ">>,
   <<"Bearer ", "Bearer ", "s3cret">>}
CronMethods == {"GET", "POST"}

\* authHeader.startsWith('Bearer ')
StartsWithBearer(authHeader) == Len(authHeader) > 0 /\ authHeader[1] = "Bearer "

\* authHeader.startsWith('Bearer ') ? authHeader.slice(7) : authHeader
BearerToken(authHeader) ==
  IF StartsWithBearer(authHeader) THEN Tail(authHeader) ELSE authHeader

\* the comparison alone, without the tests for a missing header or secret
VerifyCronSecretUnguarded(authHeader, cronSecret) ==
  BearerToken(authHeader) = cronSecret

\* verifyCronSecret
VerifyCronSecret(authHeader, cronSecret) ==
  IF authHeader = <<>> THEN FALSE
  ELSE IF cronSecret = <<>> THEN FALSE
  ELSE BearerToken(authHeader) = cronSecret

\* the rows of a query without ORDER BY arrive in any order
Orderings(S) ==
  {q \in [1..Cardinality(S) -> S] :
     \A i, j \in 1..Cardinality(S) : i # j => q[i] # q[j]}

\* GET, and POST which calls it: the authorization test, the due-user query
\* and, with users due, the start of syncUsers
CronRequest(method, authHeader, cronSecret, mode) ==
  /\ cron.pc \in {"idle", "answered"}
  /\ cron.served < MaxSweeps
  /\ Quiet
  /\ LET req == [method |-> method, header |-> authHeader,
                 secret |-> cronSecret]
         base == [cron EXCEPT !.served = @ + 1, !.request = req,
                              !.found = {}, !.input = <<>>, !.todo = <<>>,
                              !.calls = <<>>, !.notes = <<>>,
                              !.summary = NoSummary]
         usersToSync == GetUsersToSync(UserIds, settings, now, mode)
     IN \E userIds \in Orderings(usersToSync.rows) :
        cron' =
          IF ~VerifyCronSecret(authHeader, cronSecret)
          THEN [base EXCEPT !.pc = "answered", !.status = 401]
          ELSE IF usersToSync.err # NoError
          THEN [base EXCEPT !.pc = "answered", !.status = 500,
                            !.lookups = @ + 1]
          ELSE IF usersToSync.rows = {}
          THEN [base EXCEPT !.pc = "answered", !.status = 200,
                            !.lookups = @ + 1]
          ELSE [base EXCEPT !.pc = "sweeping", !.status = 0,
                            !.lookups = @ + 1,
                            !.found = usersToSync.rows,
                            !.input = userIds,
                            !.todo = userIds]
  /\ UNCHANGED <<retryVars, pageVars, now, dbVars, upstream, runs, post,
                 budget, serial, due, call>>

\* syncUsers after an await: results.push(result) and the onProgress call
\* for the run that has returned
Noticed(c) ==
  IF Len(c.notes) < Len(c.calls)
  THEN [c EXCEPT !.notes =
          Append(@, [userId |-> runs[c.calls[Len(c.calls)]].userId,
                     result |-> c.calls[Len(c.calls)],
                     index |-> Len(c.calls), total |-> Len(c.input)])]
  ELSE c

\* the loop taking any of the ids left instead of userIds[i]
CronCallAny(r, u) ==
  /\ cron.pc = "sweeping"
  /\ \E i \in 1..Len(cron.todo) : cron.todo[i] = u
  /\ CanStart(r)
  /\ ~CronBusy
  /\ runs' = [runs EXCEPT ![r] = Begin(u)]
  /\ cron' = [Noticed(cron) EXCEPT
                !.todo = SelectSeq(@, LAMBDA x : x # u),
                !.calls = Append(@, r)]
  /\ budget' = Started
  /\ UNCHANGED <<retryVars, pageVars, now, dbVars, upstream, post, serial,
                 due, call>>

\* syncUsers: the next await syncUserRepositories(userId)
CronCall(r, u) ==
  /\ cron.pc = "sweeping"
  /\ cron.todo # <<>>
  /\ u = Head(cron.todo)
  /\ CanStart(r)
  /\ ~CronBusy
  /\ runs' = [runs EXCEPT ![r] = Begin(u)]
  /\ cron' = [Noticed(cron) EXCEPT !.todo = Tail(@), !.calls = Append(@, r)]
  /\ budget' = Started
  /\ UNCHANGED <<retryVars, pageVars, now, dbVars, upstream, post, serial,
                 due, call>>

\* lines 73-99: the summary of the results of syncUsers, by
\* results.filter(..).length, results.reduce(..) and results.flatMap(..)
RECURSIVE Summary(_)
Summary(notes) ==
  IF notes = <<>>
  THEN [NoSummary EXCEPT !.present = TRUE]
  ELSE LET rest == Summary(SubSeq(notes, 1, Len(notes) - 1))
           result == runs[notes[Len(notes)].result]
       IN [rest EXCEPT
             !.usersProcessed = @ + 1,
             !.successfulSyncs = @ + (IF result.success THEN 1 ELSE 0),
             !.failedSyncs = @ + (IF result.success THEN 0 ELSE 1),
             !.totalReposSynced = @ + result.reposSynced,
             !.totalUpdatesDetected = @ + result.updatesDetected,
             !.errors = @ \o result.errors]

\* syncUsers returned: the summary is answered
CronAnswer ==
  /\ cron.pc = "sweeping"
  /\ cron.todo = <<>>
  /\ ~CronBusy
  /\ cron' = [Noticed(cron) EXCEPT !.pc = "answered", !.status = 200,
                                   !.summary = Summary(Noticed(cron).notes)]
  /\ UNCHANGED <<retryVars, pageVars, now, dbVars, upstream, runs, post,
                 budget, serial, due, call>>

SweepRows ==
  {NoSettings, SettingsRow(TRUE, DEFAULT_SYNC_INTERVAL, NULL),
   SettingsRow(FALSE, DEFAULT_SYNC_INTERVAL, NULL)}

\* SpecSweep: requests to the scheduled trigger over stores in which users
\* have written their settings and were never synced; nothing fails
InitSweep ==
  /\ RetryIdle
  /\ now = 0
  /\ settings \in [UserIds -> SweepRows]
  /\ repos = {}
  /\ repoSeq = 0
  /\ updates = {}
  /\ updSeq = 0
  /\ upstream = [g \in RepoIds |-> 0]
  /\ runs = [r \in RunIds |-> RunIdle]
  /\ post = NoPost
  /\ cron = CronIdle
  /\ due = DueIdle
  /\ call = NoCall
  /\ budget = [runs |-> MaxRuns, faults |-> 0, ticks |-> 0, puts |-> 0]
  /\ serial = TRUE

\* the steps of the calls of syncUserRepositories
RunSteps ==
  \/ \E r \in RunIds, e \in DbOutcomes("Failed to get user with token") :
          RunGetUser(r, e)
  \/ \E r \in RunIds, e \in DbOutcomes("Failed to get sync settings") :
          RunGetSettings(r, e)
  \/ \E r \in RunIds, e \in FnOutcomes : RunFetch(r, e)
  \/ \E r \in RunIds, e \in DbOutcomes("Failed to save repository") :
          RunSave(r, e)
  \/ \E r \in RunIds, e \in FnOutcomes : RunActivity(r, e)
  \/ \E r \in RunIds,
        e \in DbOutcomes("Failed to save repository update by GitHub ID") :
          RunInsert(r, e)
  \/ \E r \in RunIds, e \in DbOutcomes("Failed to update last sync time") :
          RunUpdateLastSync(r, e)

NextSweep ==
  \/ \E method \in CronMethods, authHeader \in CronHeaders,
        cronSecret \in CronSecrets, mode \in DueQueryModes :
          CronRequest(method, authHeader, cronSecret, mode)
  \/ \E r \in RunIds, u \in UserIds : CronCall(r, u)
  \/ CronAnswer
  \/ RunSteps

SpecSweep == InitSweep /\ [][NextSweep]_vars

\* the header, bare or without its "Bearer " prefix, is the configured secret
SecretMatches(req) ==
  /\ req.header # <<>>
  /\ req.secret # <<>>
  /\ \/ req.header = req.secret
     \/ StartsWithBearer(req.header) /\ Tail(req.header) = req.secret

\* C14: a request to the scheduled trigger, GET or POST, goes past the
\* authorization test only when its header, bare or without the "Bearer "
\* prefix, equals the configured secret; with a missing header, an unset
\* secret or another value it is answered 401 with no getUsersToSync query
\* and no call of syncUserRepositories.
CronNeedsSecret ==
  [][/\ cron'.served > cron.served =>
          /\ cron'.status # 401 => SecretMatches(cron'.request)
          /\ ~SecretMatches(cron'.request) =>
                /\ cron'.status = 401
                /\ cron'.pc = "answered"
                /\ cron'.lookups = cron.lookups
                /\ cron'.todo = <<>>
                /\ runs' = runs
     /\ cron'.calls # cron.calls =>
          /\ cron.status # 401
          /\ SecretMatches(cron.request)]_vars

\* a POST with the secret behind "Bearer " made the due-user query
CronPostAuthorized ==
  /\ cron.request.method = "POST"
  /\ cron.request.header = <<"Bearer ", "s3cret">>
  /\ cron.request.secret = <<"s3cret">>
  /\ cron.lookups > 0
  /\ cron.status \in {200, 500}

(***************************************************************************)
(* SpecDue: getUsersToSync applied to tables of four users                 *)
(***************************************************************************)
DueUsers == {"A", "B", "C", "D"}
DueTimes == {Minutes(200), Minutes(1440)}

\* the rows a user can have at time t: none, disabled, never synced, synced
\* 200, 120 (the interval to the millisecond), 119 or 10 minutes ago
DueRows(t) ==
  {NoSettings,
   SettingsRow(FALSE, DEFAULT_SYNC_INTERVAL, NULL),
   SettingsRow(TRUE, DEFAULT_SYNC_INTERVAL, NULL),
   SettingsRow(TRUE, DEFAULT_SYNC_INTERVAL, t - Minutes(200)),
   SettingsRow(TRUE, DEFAULT_SYNC_INTERVAL, t - Minutes(DEFAULT_SYNC_INTERVAL)),
   SettingsRow(TRUE, DEFAULT_SYNC_INTERVAL, t - Minutes(119)),
   SettingsRow(TRUE, DEFAULT_SYNC_INTERVAL, t - Minutes(10))}

\* getUsersToSync() is called at time t over the table tbl, once in a
\* behaviour
DueQuery(tbl, t, mode) ==
  /\ ~due.asked
  /\ LET r == GetUsersToSync(DueUsers, tbl, t, mode)
     IN due' = [asked |-> TRUE, tbl |-> tbl, at |-> t, err |-> r.err,
                rows |-> r.rows]
  /\ UNCHANGED <<retryVars, pageVars, now, dbVars, upstream, runs, post,
                 budget, serial, cron, call>>

InitDue == InitRetry

NextDue ==
  \E t \in DueTimes : \E tbl \in [DueUsers -> DueRows(t)] :
    \E mode \in DueQueryModes : DueQuery(tbl, t, mode)

SpecDue == InitDue /\ [][NextDue]_vars

\* the table of the example: A disabled, B never synced, C synced 200
\* minutes ago, D synced 10 minutes ago, intervals of 120 minutes
ExampleTable(t) ==
  [u \in DueUsers |->
     CASE u = "A" -> SettingsRow(FALSE, DEFAULT_SYNC_INTERVAL, NULL)
       [] u = "B" -> SettingsRow(TRUE, DEFAULT_SYNC_INTERVAL, NULL)
       [] u = "C" -> SettingsRow(TRUE, DEFAULT_SYNC_INTERVAL, t - Minutes(200))
       [] OTHER -> SettingsRow(TRUE, DEFAULT_SYNC_INTERVAL, t - Minutes(10))]

\* C11: getUsersToSync answers, and with exactly the users whose row has
\* sync_enabled true and last_sync_at NULL or at least sync_interval_minutes
\* minutes old; for A disabled, B never synced, C synced 200 minutes ago and
\* D synced 10 minutes ago (interval 120) it answers {B, C}.
DueUsersSelected ==
  due.asked =>
    /\ due.err = NoError
    /\ due.rows =
         {u \in DueUsers :
            /\ due.tbl[u].present
            /\ due.tbl[u].sync_enabled
            /\ \/ due.tbl[u].last_sync_at = NULL
               \/ due.at - due.tbl[u].last_sync_at
                    >= Minutes(due.tbl[u].sync_interval_minutes)}
    /\ due.tbl = ExampleTable(due.at) => due.rows = {"B", "C"}

(***************************************************************************)
(* Properties of the runs, the store and the manual trigger                *)
(***************************************************************************)
Done(r) == runs[r].pc = "done"

\* b is the next call for the user of call a
NextRunOfUser(a, b) ==
  /\ a < b
  /\ runs[a].userId = runs[b].userId
  /\ \A c \in RunIds : (a < c /\ c < b) => runs[c].userId # runs[a].userId

\* C1: two successive runs for one user over the same upstream data: after
\* the second the user has as many repository rows and as many activity rows
\* as after the first, one repository row per starred upstream id.
SyncTwiceIdempotent ==
  \A a, b \in RunIds :
    (/\ NextRunOfUser(a, b) /\ Done(a) /\ Done(b)
     /\ runs[a].success /\ runs[b].success
     /\ runs[a].errors = <<>> /\ runs[b].errors = <<>>
     /\ runs[a].allRepos = runs[b].allRepos)
    => /\ runs[b].rowsAfter = runs[a].rowsAfter
       /\ runs[b].rowsAfter[1] = Len(runs[b].allRepos)

\* C2: the same activity record (same repository row, same URL) inserted a
\* second time through saveRepositoryUpdateByGithubId leaves one stored row
\* and the call answers false.
ActivityInsertedOnce ==
  /\ \A x, y \in updates : (x.repo_id = y.repo_id /\ x.url = y.url) => x = y
  /\ \A r \in RunIds :
       (runs[r].lastInsert.done /\ runs[r].lastInsert.existed)
          => ~runs[r].lastInsert.saved

\* C3: the store never holds two repository rows for one (user_id, upstream
\* repository id), however the runs interleave; a saveRepository that found
\* a row for its key returned the id of that row.
OneRowPerUserRepo ==
  /\ \A x, y \in repos :
       (x.user_id = y.user_id /\ x.github_repo_id = y.github_repo_id) => x = y
  /\ \A r \in RunIds :
       (runs[r].lastSave.done /\ runs[r].lastSave.oldId # NULL)
          => runs[r].lastSave.id = runs[r].lastSave.oldId

\* two overlapping runs of one user: one has just upserted a repository
\* whose row the other had created, while that other run is still going
UpsertUnderOverlap ==
  \E a, b \in RunIds :
    /\ a # b /\ runs[a].userId = runs[b].userId
    /\ Active(a) /\ Active(b)
    /\ runs[a].lastSave.done /\ runs[a].lastSave.oldId # NULL
    /\ runs[b].reposSynced > 0

SaveFaults(run, g) ==
  Cardinality({i \in 1..Len(run.faults) :
                 run.faults[i].op = "save" /\ run.faults[i].repo = g})

RepoIdsOf(run) == {run.allRepos[i].id : i \in 1..Len(run.allRepos)}

\* in the run every failure was a failed saveRepository attempt, and k is the
\* one repository whose attempts all failed
OnlySaveOfFails(run, k) ==
  /\ k \in RepoIdsOf(run)
  /\ \A i \in 1..Len(run.faults) : run.faults[i].op = "save"
  /\ \A g \in RepoIdsOf(run) : (SaveFaults(run, g) = MAX_RETRIES) <=> (g = k)

\* C4: a run in which the persistence of exactly one fetched repository k
\* failed on every attempt still persisted every other repository, returns
\* success with reposSynced = N - 1, and its error list is one entry, for k.
PartialFailureIsolation ==
  \A r \in RunIds : \A k \in RepoIds :
    (Done(r) /\ OnlySaveOfFails(runs[r], k))
    => /\ runs[r].success
       /\ runs[r].reposSynced = Len(runs[r].allRepos) - 1
       /\ Len(runs[r].errors) = 1
       /\ runs[r].errors[1].kind = "save" /\ runs[r].errors[1].repo = k
       /\ \A g \in RepoIdsOf(runs[r]) \ {k} :
            RepoRowsOf(repos, runs[r].userId, g) # {}
       /\ RepoRowsOf(repos, runs[r].userId, k) = {}

\* a finished run over two repositories in which the first one failed to
\* persist three times and the second one was persisted
FirstRepoFailsToPersist ==
  \E r \in RunIds :
    /\ Done(r) /\ OnlySaveOfFails(runs[r], 1)
    /\ Len(runs[r].allRepos) = 2 /\ runs[r].reposSynced = 1

\* C8: a manual POST of a signed-in user whose stored last_sync_at is less
\* than 5 minutes old is answered 429 with the last-sync time and waitTime,
\* the remaining time rounded up to whole seconds (1..300), and starts no
\* run; with no settings row, a NULL last_sync_at or one at least 5 minutes
\* old the POST calls syncUserRepositories for that user.
ManualCooldown ==
  [][(post' # post /\ post'.status \in {0, 429})
       => LET u == post'.userId
              row == settings[u]
              remaining == MIN_SYNC_INTERVAL_MS - (now - row.last_sync_at)
              recent == row.present /\ row.last_sync_at # NULL /\ remaining > 0
          IN /\ recent =>
                  /\ post'.status = 429
                  /\ post'.lastSyncAt = row.last_sync_at
                  /\ post'.waitTime \in 1..300
                  /\ post'.waitTime * 1000 >= remaining
                  /\ (post'.waitTime - 1) * 1000 < remaining
                  /\ runs' = runs
             /\ ~recent =>
                  /\ post'.status = 0
                  /\ post'.run \in RunIds
                  /\ runs[post'.run].pc = "idle"
                  /\ runs'[post'.run].pc = "getUser"
                  /\ runs'[post'.run].userId = u]_vars

\* a POST two minutes after the last sync was answered 429, waitTime 180
CooldownRejectsAfterTwoMinutes ==
  /\ post.status = 429 /\ post.waitTime = 180
  /\ post.at - post.lastSyncAt = 120000

\* C9: after a run that returned success the stored last_sync_at of its user
\* is set and not earlier than the start of the run, also for a user without
\* a settings row.
LastSyncSetBySuccess ==
  \A r \in RunIds :
    (Done(r) /\ runs[r].success)
    => /\ settings[runs[r].userId].last_sync_at # NULL
       /\ settings[runs[r].userId].last_sync_at >= runs[r].startTime

HasStage(run, stage) ==
  \E i \in 1..Len(run.progress) : run.progress[i].stage = stage

\* C15: a run that got its repository list (it entered the saving stage)
\* returns success = true whatever fails afterwards, in the saving stage, the
\* updates stage or the update of last_sync_at.
NoFailureAfterFetch ==
  \A r \in RunIds :
    (Done(r) /\ HasStage(runs[r], "saving")) => runs[r].success

\* the run returned at the test of sync_enabled: its user's sync is disabled,
\* nothing failed in it and it emitted nothing
ReturnedDisabled(r) ==
  /\ Done(r)
  /\ settings[runs[r].userId].present
  /\ ~settings[runs[r].userId].sync_enabled
  /\ runs[r].faults = <<>>
  /\ runs[r].progress = <<>>

\* C16: the result of a run for a user whose sync is disabled is not a
\* failure: success is not false and the result lists no error.
DisabledIsNormalOutcome ==
  \A r \in RunIds :
    ReturnedDisabled(r) => runs[r].success /\ runs[r].errors = <<>>

\* C17: the step of a run that finds its user's sync disabled ends the run
\* at once with reposSynced = 0 and updatesDetected = 0, no progress event,
\* no repository list fetched, and the tables, last_sync_at included, as
\* they were; a run that has returned does nothing further.
DisabledTouchesNothing ==
  [][\A r \in RunIds :
       /\ (/\ runs[r].pc = "getSettings"
           /\ runs'[r] # runs[r]
           /\ budget'.faults = budget.faults
           /\ settings[runs[r].userId].present
           /\ ~settings[runs[r].userId].sync_enabled)
          => /\ runs'[r].pc = "done"
             /\ runs'[r].reposSynced = 0
             /\ runs'[r].updatesDetected = 0
             /\ runs'[r].progress = <<>>
             /\ runs'[r].allRepos = <<>>
             /\ dbVars' = dbVars
       /\ runs[r].pc = "done" => runs'[r] = runs[r]]_vars

\* a run has returned for a user whose sync is disabled
SomeRunReturnedDisabled == \E r \in RunIds : ReturnedDisabled(r)

(***************************************************************************)
(* SpecLookup: calls for ids with and without a usable row of users        *)
(***************************************************************************)
\* the ids a caller may pass: 4 has no row in users
LookupIds == UserIds \cup NoTokenIds \cup {4}

InitLookup ==
  /\ RetryIdle
  /\ EmptyStore
  /\ budget = [runs |-> MaxRuns, faults |-> 1, ticks |-> 0, puts |-> 0]
  /\ serial = TRUE

NextLookup ==
  \/ \E r \in RunIds, u \in LookupIds : CallSync(r, u)
  \/ RunSteps

SpecLookup == InitLookup /\ [][NextLookup]_vars

\* the cause the outer catch reports for a row of users
LookupCause(user) ==
  IF ~user.present THEN "User not found" ELSE "User has no access token"

\* C18: when the lookup answers that the user has no row or no credential,
\* that one step ends the run: success false, reposSynced 0, one error
\* entry carrying the cause, no progress event, no retry helper or upstream
\* request started, and the tables, last_sync_at included, unchanged.
LookupFailsFast ==
  [][\A r \in RunIds :
       LET user == UserRow(runs[r].userId) IN
       (/\ runs[r].pc = "getUser"
        /\ runs'[r] # runs[r]
        /\ budget'.faults = budget.faults
        /\ ~user.present \/ ~user.access_token)
       => /\ runs'[r].pc = "done"
          /\ ~runs'[r].success
          /\ runs'[r].reposSynced = 0
          /\ runs'[r].updatesDetected = 0
          /\ Len(runs'[r].errors) = 1
          /\ runs'[r].errors[1].msg = LookupCause(user)
          /\ runs'[r].progress = <<>>
          /\ runs'[r].faults = <<>>
          /\ retryVars' = retryVars
          /\ pageVars' = pageVars
          /\ upstream' = upstream
          /\ dbVars' = dbVars]_vars

\* both causes have ended a run: one id without a row, one without a token
BothLookupCausesSeen ==
  \E p, q \in RunIds :
    /\ Done(p) /\ ~UserRow(runs[p].userId).present
    /\ Done(q) /\ UserRow(runs[q].userId).present
    /\ ~UserRow(runs[q].userId).access_token

(***************************************************************************)
(* SpecClock: a scheduled and a manual call overlap, their sleeps move the *)
(* clock, and the settings are written at any moment                       *)
(***************************************************************************)
InitClock ==
  /\ RetryIdle
  /\ EmptyStore
  /\ budget = [runs |-> Cardinality(Callers), faults |-> 0, ticks |-> 0,
               puts |-> 2]
  /\ serial = FALSE

NextClock ==
  \/ \E r \in RunIds, u \in PutUsers : CallSync(r, u)
  \/ \E r \in RunIds, sess \in [user : PutUsers, accessToken : {TRUE}] :
        ManualPost(r, sess, NoError)
  \/ RunSteps
  \/ \E u \in PutUsers : PutSettings(u, "absent", NULL)

SpecClock == InitClock /\ [][NextClock]_vars

\* C19: no step lowers a user's last_sync_at or sets one that holds a time
\* back to NULL, whichever of the runs, the sweep's calls and the settings
\* writes take the step and however they interleave.
LastSyncNeverDecreases ==
  [][\A u \in UserIds :
       settings[u].last_sync_at # NULL
         => /\ settings'[u].last_sync_at # NULL
            /\ settings'[u].last_sync_at >= settings[u].last_sync_at]_vars

\* a last_sync_at written by a successful run has been overwritten with a
\* later time
LastSyncAdvancedTwice ==
  \E r \in RunIds :
    /\ Done(r) /\ runs[r].success
    /\ settings[runs[r].userId].last_sync_at > runs[r].endTime

\* the place of a stage in the order fetching, saving, updates, complete
StageRank(stage) ==
  CASE stage = "fetching" -> 1
    [] stage = "saving" -> 2
    [] stage = "updates" -> 3
    [] stage = "complete" -> 4

\* C20: in the events a run has handed to its callback the stage never
\* moves backwards, 'complete' occurs at most once and only as the last
\* event, a run that has emitted it has returned success = true, and a run
\* that has returned success = true has emitted it.
ProgressFollowsStages ==
  \A r \in RunIds :
    LET p == runs[r].progress IN
    /\ \A i, j \in 1..Len(p) :
         i < j => StageRank(p[i].stage) <= StageRank(p[j].stage)
    /\ \A i \in 1..Len(p) : p[i].stage = "complete" => i = Len(p)
    /\ HasStage(runs[r], "complete") => Done(r) /\ runs[r].success
    /\ (Done(r) /\ runs[r].success) => HasStage(runs[r], "complete")

\* a run that had a failure on its way has returned success = true after
\* events of all four stages
AllStagesThenComplete ==
  \E r \in RunIds :
    /\ Done(r) /\ runs[r].success
    /\ runs[r].faults # <<>>
    /\ \A stage \in {"fetching", "saving", "updates", "complete"} :
         HasStage(runs[r], stage)

(***************************************************************************)
(* SpecStream: a manual POST with ?stream=true whose run meets failures    *)
(***************************************************************************)
InitStream ==
  /\ RetryIdle
  /\ EmptyStore
  /\ budget = [runs |-> 1, faults |-> 2, ticks |-> 0, puts |-> 0]
  /\ serial = TRUE

NextStream ==
  \/ \E r \in RunIds, sess \in Sessions,
        e \in DbOutcomes("Failed to get sync settings") :
          ManualStream(r, sess, e)
  \/ RunSteps

SpecStream == InitStream /\ [][NextStream]_vars

\* the messages of one type, in the order they were sent
OfType(sent, types) == SelectSeq(sent, LAMBDA m : m.type \in types)

\* C21: the stream of a streaming POST carries the run's progress events as
\* 'progress' messages in the order the run produced them; it holds no
\* terminal message while the run is going and exactly one, the last
\* message, carrying the run's result, once the run has returned, whatever
\* its success; the stream is closed exactly then.
StreamMirrorsRun ==
  post.stream.on =>
    LET run == runs[post.run]
        sent == post.stream.sent
        shown == OfType(sent, {"progress"})
        ends == OfType(sent, {"complete", "error"})
    IN /\ Len(shown) = Len(run.progress)
       /\ \A i \in 1..Len(shown) :
            /\ shown[i].stage = run.progress[i].stage
            /\ shown[i].current = run.progress[i].current
            /\ shown[i].total = run.progress[i].total
       /\ post.stream.closed <=> Done(post.run)
       /\ Len(ends) = IF Done(post.run) THEN 1 ELSE 0
       /\ Done(post.run) =>
            /\ sent[Len(sent)] = Message("complete", NoEvent, run)
            /\ sent[Len(sent)].success = run.success

\* a stream is closed after progress messages and the result of a run that
\* returned success = false
StreamClosedAfterFailure ==
  /\ post.stream.on
  /\ post.stream.closed
  /\ Len(post.stream.sent) >= 3
  /\ ~runs[post.run].success

(***************************************************************************)
(* SpecSweepFault: the scheduled trigger over stores of users never synced *)
(* when an operation of a run may fail                                     *)
(***************************************************************************)
InitSweepFault ==
  /\ RetryIdle
  /\ now = 0
  /\ settings \in [UserIds -> SweepRows]
  /\ repos = {}
  /\ repoSeq = 0
  /\ updates = {}
  /\ updSeq = 0
  /\ upstream = [g \in RepoIds |-> 0]
  /\ runs = [r \in RunIds |-> RunIdle]
  /\ post = NoPost
  /\ cron = CronIdle
  /\ due = DueIdle
  /\ call = NoCall
  /\ budget = [runs |-> MaxRuns, faults |-> 1, ticks |-> 0, puts |-> 0]
  /\ serial = TRUE

SpecSweepFault == InitSweepFault /\ [][NextSweep]_vars

\* C22: the calls syncUsers has made are for the ids of its input, one
\* each, in input order; every call but the last has returned before the
\* next began; the callback was called for the i-th id with its result,
\* index i and the input's length; and when syncUsers has returned it has
\* made a call for every id, whether or not a run failed.
SweepInInputOrder ==
  LET n == Len(cron.calls) IN
  /\ n <= Len(cron.input)
  /\ \A i \in 1..n : runs[cron.calls[i]].userId = cron.input[i]
  /\ \A i, j \in 1..n : i # j => cron.calls[i] # cron.calls[j]
  /\ \A i \in 1..n :
       i < n => /\ Done(cron.calls[i])
                /\ runs[cron.calls[i]].endTime
                     <= runs[cron.calls[i + 1]].startTime
  /\ Len(cron.notes) <= n
  /\ \A i \in 1..Len(cron.notes) :
       /\ Done(cron.calls[i])
       /\ cron.notes[i] = [userId |-> cron.input[i], result |-> cron.calls[i],
                           index |-> i, total |-> Len(cron.input)]
  /\ (cron.pc = "answered" /\ cron.status = 200) =>
       /\ n = Len(cron.input)
       /\ Len(cron.notes) = n

\* a sweep over two users has returned although the run of the first failed
SweepWentOnAfterFailure ==
  /\ cron.pc = "answered"
  /\ cron.status = 200
  /\ Len(cron.input) = 2
  /\ Len(cron.notes) = 2
  /\ ~runs[cron.calls[1]].success
  /\ runs[cron.calls[1]].faults # <<>>

RECURSIVE ErrorsOfCalls(_)
ErrorsOfCalls(calls) ==
  IF calls = <<>> THEN <<>>
  ELSE runs[Head(calls)].errors \o ErrorsOfCalls(Tail(calls))

\* C23: every response of the scheduled trigger to a sweep, one that found
\* no user due included, carries a summary with usersProcessed =
\* successfulSyncs + failedSyncs = the number of due users, the totals equal
\* to the sums over the runs, and the runs' errors concatenated in order.
SweepSummaryReported ==
  (cron.pc = "answered" /\ cron.status = 200) =>
    LET sm == cron.summary IN
    /\ sm.present
    /\ sm.usersProcessed = Cardinality(cron.found)
    /\ sm.usersProcessed = sm.successfulSyncs + sm.failedSyncs
    /\ sm.totalReposSynced =
         SumSeq([i \in 1..Len(cron.calls) |-> runs[cron.calls[i]].reposSynced])
    /\ sm.totalUpdatesDetected =
         SumSeq([i \in 1..Len(cron.calls) |->
                   runs[cron.calls[i]].updatesDetected])
    /\ sm.errors = ErrorsOfCalls(cron.calls)

(***************************************************************************)
(* SpecRead: serial runs, between which the user marks activity as read    *)
(***************************************************************************)
\* the user marks every activity row in sight as read
MarkRead(u) ==
  /\ Quiet
  /\ \E x \in updates : ~x.is_read
  /\ updates' = MarkUpdatesAsRead(repos, updates, u, {x.id : x \in updates})
  /\ UNCHANGED <<retryVars, pageVars, sweepVars, now, settings, repos, repoSeq,
                 updSeq, upstream, runs, post, budget, serial>>

NextRead ==
  \/ NextRun
  \/ \E u \in PutUsers : MarkRead(u)

SpecRead == Init /\ [][NextRead]_vars

\* C24: no activity the user has marked read is stored a second time as an
\* unread row: the rows of one repository with one type and one URL are all
\* read as soon as one of them is.
ReadNotShownAgain ==
  \A x, y \in updates :
    (/\ x.repo_id = y.repo_id
     /\ x.update_type = y.update_type
     /\ x.url = y.url
     /\ x.is_read) => y.is_read

\* C25: the insert of a fetched item is counted in updatesDetected (the call
\* answered true) only when it created a row, and never when the item was
\* stored already.
CountsOnlyNewActivity ==
  \A r \in RunIds :
    (runs[r].lastInsert.done /\ runs[r].lastInsert.saved)
      => /\ runs[r].lastInsert.created
         /\ ~runs[r].lastInsert.existed

\* C26: a saveRepository that finds a row for its (user, upstream id) key
\* leaves that row with the star, fork and open-issue counts of the upstream
\* record just fetched, and with its id and creation time as before.
SaveRefreshesCounts ==
  [][\A r \in RunIds :
       LET run == runs[r]
           repo == run.allRepos[run.i]
           old == RepoRowsOf(repos, run.userId, repo.id)
           new == RepoRowsOf(repos', run.userId, repo.id)
       IN (/\ run.pc = "save"
           /\ runs'[r].reposSynced = run.reposSynced + 1
           /\ old # {})
          => \A x \in new :
               /\ x.stars = repo.stars
               /\ x.fork_count = repo.forks_count
               /\ x.open_issues_count = repo.open_issues_count
               /\ \E y \in old : y.id = x.id /\ y.created_at = x.created_at]_vars

(***************************************************************************)
(* SpecIssues: getRecentIssues applied to answers of the issues endpoint   *)
(***************************************************************************)
MaxIssues == 3

\* the records of the issues endpoint: a pull request carries pull_request
IssueRecords ==
  [url : {<<1, "issues", n>> : n \in 1..MaxIssues}, pull_request : BOOLEAN]

IssueAnswers ==
  UNION {[1..n -> IssueRecords] : n \in 0..MaxIssues}

\* getRecentIssues, once in a behaviour: the answer `data' of the endpoint
\* and data.filter((issue) => !issue.pull_request)
GetRecentIssues(data) ==
  /\ call = NoCall
  /\ call' = [fn |-> "getRecentIssues", data |-> data,
              out |-> FilterSeq(data, FALSE)]
  /\ UNCHANGED <<retryVars, pageVars, now, dbVars, upstream, runs, post,
                 budget, serial, cron, due>>

NextIssues == \E data \in IssueAnswers : GetRecentIssues(data)

SpecIssues == InitRetry /\ [][NextIssues]_vars

\* C27: no record getRecentIssues returns carries pull_request, and the
\* records it returns are the records of the answer without pull_request,
\* each once, in the order of the answer.
IssuesWithoutPullRequests ==
  call.fn = "getRecentIssues" =>
    LET kept == {i \in 1..Len(call.data) : ~call.data[i].pull_request} IN
    /\ \A k \in 1..Len(call.out) : ~call.out[k].pull_request
    /\ Len(call.out) = Cardinality(kept)
    /\ \E at \in [1..Len(call.out) -> 1..Len(call.data)] :
         /\ \A k \in 1..Len(call.out) :
              at[k] \in kept /\ call.out[k] = call.data[at[k]]
         /\ \A j, k \in 1..Len(call.out) : j < k => at[j] < at[k]

\* an answer with a pull request between two issues was filtered
PullRequestBetweenIssues ==
  /\ call.fn = "getRecentIssues"
  /\ Len(call.data) = 3
  /\ ~call.data[1].pull_request
  /\ call.data[2].pull_request
  /\ ~call.data[3].pull_request
  /\ Len(call.out) = 2

(***************************************************************************)
(* SpecPut: settings writes with intervals at and beyond the limits,       *)
(* between runs                                                            *)
(***************************************************************************)
PutIntervals ==
  {NULL, NaN, 0, MIN_INTERVAL_MINUTES - 1, MIN_INTERVAL_MINUTES,
   MAX_INTERVAL_MINUTES, MAX_INTERVAL_MINUTES + 1}

InitPut ==
  /\ RetryIdle
  /\ EmptyStore
  /\ budget = [runs |-> 1, faults |-> 0, ticks |-> 0, puts |-> 2]
  /\ serial = TRUE

NextPut ==
  \/ NextRun
  \/ \E u \in PutUsers, enabledIn \in {"absent", "false"},
        intervalIn \in PutIntervals : PutSettings(u, enabledIn, intervalIn)

SpecPut == InitPut /\ [][NextPut]_vars

\* C28: after every step each stored sync_interval_minutes is from 30 to
\* 1440, and a PUT whose interval is below 30, above 1440 or not a number
\* is answered 400 and leaves the settings as they were.
IntervalStaysInRange ==
  [][/\ \A u \in UserIds :
          settings'[u].present =>
            /\ settings'[u].sync_interval_minutes >= 30
            /\ settings'[u].sync_interval_minutes <= 1440
     /\ (call' # call /\ call'.fn = "PUT") =>
          LET v == call'.data[2] IN
          (v = NaN \/ (v # NULL /\ (v < 30 \/ v > 1440)))
            => call'.out = <<400>> /\ settings' = settings]_vars

\* a PUT with 1441 minutes was answered 400 after one with 1440 was stored
PutBeyondLimitRejected ==
  /\ call.fn = "PUT"
  /\ call.data[2] = 1441
  /\ call.out = <<400>>
  /\ \E u \in UserIds : /\ settings[u].present
                        /\ settings[u].sync_interval_minutes = 1440

(***************************************************************************)
(* SpecStatus: the status check asked before, during and after a run while *)
(* the clock moves                                                         *)
(***************************************************************************)
InitStatus ==
  /\ RetryIdle
  /\ EmptyStore
  /\ budget = [runs |-> 1, faults |-> 0, ticks |-> 2, puts |-> 1]
  /\ serial = FALSE

NextStatus ==
  \/ Next
  \/ \E sess \in Sessions : ManualGet(sess)

SpecStatus == InitStatus /\ [][NextStatus]_vars

\* a step of the status check: no other step leaves both the budget and the
\* runs as they were
StatusAsked == call'.fn = "GET" /\ budget' = budget /\ runs' = runs

\* C29: a status check answered 200 reports canSync = true exactly when the
\* cooldown test of the manual POST, made on the same settings at the same
\* time, does not reject, and otherwise the waitTime that test computes.
StatusAgreesWithGuard ==
  [][(StatusAsked /\ call'.out.status = 200) =>
       LET guard == Cooldown(GetSyncSettings(settings, call'.data[1]), now)
       IN /\ call'.out.canSync <=> ~guard.reject
          /\ ~call'.out.canSync => call'.out.waitTime = guard.waitTime]_vars

\* a status check made one millisecond before the cooldown ends reports
\* canSync = false and a waitTime of one second
StatusJustBeforeCooldownEnds ==
  /\ call.fn = "GET"
  /\ call.out.status = 200
  /\ ~call.out.canSync
  /\ call.out.waitTime = 1

\* the failed attempts of the fetch stage of a run
FetchFaults(run) ==
  Cardinality({i \in 1..Len(run.faults) : run.faults[i].op = "fetch"})

\* C30: a run leaves its fetch stage for its return only after MAX_RETRIES
\* failed attempts or an authentication error, and then with success =
\* false, reposSynced = 0, updatesDetected = 0, only 'fetching' events, and
\* the tables, empty since the run began and last_sync_at included, as they
\* were.
FetchFailureIsFatal ==
  [][\A r \in RunIds :
       (runs[r].pc = "fetch" /\ runs'[r].pc = "done") =>
         LET run == runs'[r] IN
         /\ ~run.success
         /\ run.reposSynced = 0
         /\ run.updatesDetected = 0
         /\ run.allRepos = <<>>
         /\ \A i \in 1..Len(run.progress) : run.progress[i].stage = "fetching"
         /\ dbVars' = dbVars
         /\ repos = {} /\ updates = {}
         /\ settings[run.userId].last_sync_at = NULL
         /\ \/ FetchFaults(run) = MAX_RETRIES
            \/ \E e \in ClientErrors :
                 IsAuthError(e) /\ run.errors[Len(run.errors)].msg = e.msg]_vars

\* a run has returned after three failed attempts to fetch the repositories
FetchRetriesExhausted ==
  \E r \in RunIds :
    /\ Done(r)
    /\ ~runs[r].success
    /\ FetchFaults(runs[r]) = MAX_RETRIES
    /\ runs[r].progress # <<>>

(***************************************************************************)
(* SpecMany: one call for a user who has starred one repository more than  *)
(* the updates stage visits; one operation may fail, and the user may save *)
(* their settings before or after the call                                 *)
(***************************************************************************)
ManyRepoIds == 1..(UPDATE_CAP + 1)

InitMany ==
  /\ RetryIdle
  /\ now = 0
  /\ settings = [u \in UserIds |-> NoSettings]
  /\ repos = {}
  /\ repoSeq = 0
  /\ updates = {}
  /\ updSeq = 0
  /\ upstream = [g \in ManyRepoIds |-> 0]
  /\ runs = [r \in RunIds |-> RunIdle]
  /\ post = NoPost
  /\ cron = CronIdle
  /\ due = DueIdle
  /\ call = NoCall
  /\ budget = [runs |-> 1, faults |-> 1, ticks |-> 0, puts |-> 1]
  /\ serial = TRUE

NextMany ==
  \/ \E r \in RunIds : CallSync(r, 1)
  \/ RunSteps
  \/ PutSettings(1, "absent", NULL)

SpecMany == InitMany /\ [][NextMany]_vars

ActivityKinds == {"commit", "issue", "pr"}
KindRank(op) == IF op = "commit" THEN 1 ELSE IF op = "issue" THEN 2 ELSE 3

\* the position of repository g in the fetched list
Pos(run, g) ==
  CHOOSE k \in 1..Len(run.allRepos) : run.allRepos[k].id = g

Upserts(run) == SelectSeq(run.ops, LAMBDA c : c.op = "save")
Reads(run) == SelectSeq(run.ops, LAMBDA c : c.op \in ActivityKinds)

\* the updates loop has ended
UpdatesLoopOver(run) ==
  run.pc = "lastSync" \/ (run.pc = "done" /\ HasStage(run, "updates"))

\* C31: in one run every upsert precedes the first activity read; the
\* upserts follow the fetched order; the activity reads visit the first
\* min(N, 20) fetched repositories in that order and no other, each
\* repository's reads in the order commits, issues, pull requests, each
\* asking for at most 5 items
CallsInOrder ==
  \A r \in RunIds :
    LET run == runs[r]
        log == run.ops
        saves == Upserts(run)
        reads == Reads(run)
        n == Len(run.allRepos)
        m == Min(n, 20)
    IN /\ \A j, k \in 1..Len(log) :
            (j < k /\ log[j].op \in ActivityKinds) => log[k].op # "save"
       /\ saves # <<>> => Pos(run, saves[1].repo) = 1
       /\ \A k \in 1..(Len(saves) - 1) :
            Pos(run, saves[k + 1].repo) - Pos(run, saves[k].repo) \in {0, 1}
       /\ reads # <<>> => Pos(run, reads[1].repo) = 1 /\ reads[1].op = "commit"
       /\ \A k \in 1..(Len(reads) - 1) :
            LET a == reads[k]
                b == reads[k + 1]
            IN \/ b.repo = a.repo /\ KindRank(b.op) - KindRank(a.op) \in {0, 1}
               \/ /\ Pos(run, b.repo) = Pos(run, a.repo) + 1
                  /\ b.op = "commit"
       /\ \A k \in 1..Len(reads) :
            reads[k].count <= 5 /\ Pos(run, reads[k].repo) <= m
       /\ UpdatesLoopOver(run) =>
            /\ {Pos(run, saves[k].repo) : k \in 1..Len(saves)} = 1..n
            /\ {Pos(run, reads[k].repo) : k \in 1..Len(reads)} = 1..m

\* a run over 21 fetched repositories has ended after reading the activity
\* of twenty of them
TwentyOfTwentyOneVisited ==
  \E r \in RunIds :
    /\ runs[r].pc = "done"
    /\ runs[r].success
    /\ Len(runs[r].allRepos) = UPDATE_CAP + 1
    /\ Len(Upserts(runs[r])) = UPDATE_CAP + 1
    /\ {Reads(runs[r])[k].repo : k \in 1..Len(Reads(runs[r]))} = 1..UPDATE_CAP

\* the step of run r in which a call of the updates loop fails for good
ActivityGivenUp(r) ==
  /\ runs[r].pc \in {"activity", "insert"}
  /\ Len(runs'[r].faults) = Len(runs[r].faults) + 1
  /\ ~(/\ runs'[r].pc = runs[r].pc
       /\ runs'[r].i = runs[r].i
       /\ runs'[r].attempt = runs[r].attempt + 1)

\* the step of run r in which updateLastSyncTime returns
LastSyncWritten(r) ==
  /\ runs[r].pc = "lastSync"
  /\ runs'[r].pc = "done"
  /\ runs'[r].faults = runs[r].faults

UpsertsReturned(run) ==
  Len(Upserts(run)) - Len(SelectSeq(run.faults, LAMBDA f : f.op = "save"))

SaveErrors(run) == SelectSeq(run.errors, LAMBDA x : x.kind = "save")

\* C33: at every point of a run reposSynced is the number of upserts that
\* have returned, and once the saving loop is over reposSynced plus the
\* number of 'Failed to save repo' entries is the number of fetched
\* repositories
ReposSyncedCountsUpserts ==
  \A r \in RunIds :
    LET run == runs[r] IN
    /\ run.reposSynced = UpsertsReturned(run)
    /\ HasStage(run, "updates") =>
         run.reposSynced + Len(SaveErrors(run)) = Len(run.allRepos)

\* the saving loop of a run over two repositories is over with the first
\* saved and the second given up after three attempts
SecondRepoFailsToPersist ==
  \E r \in RunIds :
    /\ HasStage(runs[r], "updates")
    /\ Len(runs[r].allRepos) = 2
    /\ runs[r].reposSynced = 1
    /\ Len(SaveErrors(runs[r])) = 1
    /\ SaveErrors(runs[r])[1].repo = runs[r].allRepos[2].id
    /\ SaveFaults(runs[r], runs[r].allRepos[2].id) = MAX_RETRIES

\* the position of the first event of a stage among the events of the run,
\* one past the last event when the stage has none
FirstOfStage(run, stage) ==
  IF HasStage(run, stage)
  THEN CHOOSE k \in 1..Len(run.progress) :
         /\ run.progress[k].stage = stage
         /\ \A j \in 1..(k - 1) : run.progress[j].stage # stage
  ELSE Len(run.progress) + 1

\* C34: for N >= 1 fetched repositories a 'saving' event with current = N
\* and total = N is emitted before the first 'updates' event, and once the
\* updates loop is over an 'updates' event with current = total =
\* min(N, 20) has been emitted
FinalProgressEmitted ==
  \A r \in RunIds :
    LET run == runs[r]
        n == Len(run.allRepos)
        m == Min(n, 20)
    IN n >= 1 =>
         /\ HasStage(run, "updates") =>
              \E k \in 1..(FirstOfStage(run, "updates") - 1) :
                run.progress[k] =
                  [stage |-> "saving", current |-> n, total |-> n]
         /\ UpdatesLoopOver(run) =>
              \E k \in 1..Len(run.progress) :
                run.progress[k] =
                  [stage |-> "updates", current |-> m, total |-> m]

InsertFaults(run, g) ==
  Cardinality({i \in 1..Len(run.faults) :
                 run.faults[i].op = "insert" /\ run.faults[i].repo = g})

\* C35: a failing activity insert is attempted MAX_RETRIES times before it
\* is recorded as the error of its repository, as a failing upsert is
InsertRetriedBeforeError ==
  \A r \in RunIds : \A k \in 1..Len(runs[r].errors) :
    LET x == runs[r].errors[k] IN
    /\ (x.kind = "save") => SaveFaults(runs[r], x.repo) = MAX_RETRIES
    /\ (x.kind = "updates"
        /\ x.msg = "Failed to save repository update by GitHub ID")
         => InsertFaults(runs[r], x.repo) = MAX_RETRIES

(***************************************************************************)
(* SpecManual: two requests of signed-in users to the manual trigger, the  *)
(* second of which may arrive while the run of the first is in progress;   *)
(* user 1 may save their settings                                          *)
(***************************************************************************)
InitManual ==
  /\ RetryIdle
  /\ EmptyStore
  /\ budget = [runs |-> 2, faults |-> 0, ticks |-> 0, puts |-> 1]
  /\ serial = FALSE

NextManual ==
  \/ \E r \in RunIds, sess \in [user : UserIds, accessToken : {TRUE}] :
        ManualOverlap(r, sess, NoError)
  \/ RunSteps
  \/ PutSettings(1, "absent", NULL)

SpecManual == InitManual /\ [][NextManual]_vars

\* C36: the guard of the manual trigger looks at last_sync_at alone: a
\* request is turned away exactly when the user's last sync lies less than
\* five minutes back, whether or not a run is in progress, otherwise a run
\* is started; and a run leaves the settings alone until its last step, so
\* two triggers for one user can both pass and two runs go on at once
ManualGuardAdvisory ==
  [][/\ budget'.runs < budget.runs =>
          LET u == post'.userId
              row == settings[u]
          IN /\ post'.status \in {0, 429}
             /\ post'.status = 429 <=>
                  /\ row.present
                  /\ row.last_sync_at # NULL
                  /\ now - row.last_sync_at < 300000
             /\ post'.status = 0 =>
                  /\ runs[post'.run].pc = "idle"
                  /\ runs'[post'.run].pc = "getUser"
                  /\ runs'[post'.run].userId = u
     /\ \A r \in RunIds :
          (Active(r) /\ runs[r].pc # "lastSync" /\ runs'[r] # runs[r])
            => settings' = settings]_vars

\* two runs for user 1, who has a settings row, are in progress at once
TwoManualRunsAtOnce ==
  /\ runs[1].userId = 1
  /\ runs[2].userId = 1
  /\ Active(1)
  /\ Active(2)
  /\ runs[1].pc = "save"
  /\ settings[1].present

\* C37: saving the settings changes only the fields the request supplies:
\* a field left out keeps the value of the stored row, and last_sync_at is
\* never altered
SettingsUpdateFrame ==
  [][budget'.puts < budget.puts =>
       \A u \in UserIds :
         /\ settings'[u].last_sync_at = settings[u].last_sync_at
         /\ (settings[u].present /\ call'.data[2] = NULL) =>
              settings'[u].sync_interval_minutes =
                settings[u].sync_interval_minutes
         /\ (settings[u].present /\ call'.data[1] = "absent") =>
              settings'[u].sync_enabled = settings[u].sync_enabled]_vars

SpecFaultLive == SpecFault /\ WF_vars(RunSteps)

FatalOps == {"getUser", "getSettings", "fetch", "lastSync"}

\* the step of run r in which a call failed and was not tried again
GivenUp(r) ==
  /\ Len(runs'[r].faults) = Len(runs[r].faults) + 1
  /\ ~(/\ runs'[r].pc = runs[r].pc
       /\ runs'[r].i = runs[r].i
       /\ runs'[r].attempt = runs[r].attempt + 1)

\* C39: syncUserRepositories never throws and always returns: a failure
\* that is not retried becomes the next entry of the error list; a failure
\* of the lookup, the settings read, the fetch or the last-sync update ends
\* the run with a result, a failure inside a loop iteration leaves the run
\* going with the next repository or the next stage; the result carries the
\* user the call was made for; every call that was started returns
NeverThrows ==
  /\ [][\A r \in RunIds :
          LET run == runs[r]
              after == runs'[r]
          IN /\ GivenUp(r) =>
                  LET f == after.faults[Len(after.faults)]
                      x == after.errors[Len(after.errors)]
                  IN /\ Len(after.errors) = Len(run.errors) + 1
                     /\ SubSeq(after.errors, 1, Len(run.errors)) = run.errors
                     /\ f.op \in FatalOps =>
                          /\ x.kind = "fatal"
                          /\ after.pc = "done"
                          /\ ~after.success
                     /\ f.op \notin FatalOps =>
                          /\ x.kind = (IF f.op = "save" THEN "save"
                                       ELSE "updates")
                          /\ x.repo = f.repo
                          /\ x.repo = run.allRepos[run.i].id
                          /\ after.pc \in {"save", "activity", "lastSync"}
                          /\ after.pc = run.pc => after.i = run.i + 1
             /\ run.pc # "idle" => after.userId = run.userId
             /\ (run.pc = "idle" /\ after.pc # "idle" /\ post'.run = r) =>
                  after.userId = post'.userId
             /\ after.pc \in {"idle", "getUser", "getSettings", "fetch", "save",
                              "activity", "insert", "lastSync", "done"}]_vars
  /\ \A r \in RunIds : (runs[r].pc # "idle") ~> (runs[r].pc = "done")

\* a run has returned with the error of one repository's activity read
\* followed by the error of the last-sync update
RepoErrorThenFatal ==
  \E r \in RunIds :
    /\ runs[r].pc = "done"
    /\ ~runs[r].success
    /\ Len(runs[r].errors) = 2
    /\ runs[r].errors[1].kind = "updates"
    /\ runs[r].errors[2].kind = "fatal"
    /\ runs[r].userId = 1

\* C40: a user without a settings row counts as enabled, with the interval
\* 120 and never synced: the orchestrator does not take them for disabled,
\* the status read lets them sync, and the scheduled selection, when it
\* answers, includes them as due
MissingRowMeansDefaults ==
  (due.asked /\ due.err = NoError) =>
    \A u \in DueUsers :
      ~due.tbl[u].present =>
        /\ ~SyncDisabled(due.tbl[u])
        /\ SyncStatus(due.tbl[u], due.at).canSync
        /\ Cooldown(due.tbl[u], due.at).reject = FALSE
        /\ u \in due.rows

====
